---------------------------- MODULE Spec2Model ----------------------------
(***************************************************************************)
(* Verification model of AutomaticTypesettingTool's template parser:       *)
(*   - the role classifier, _collect_body_candidates_by_stack              *)
(*     (src/AutomaticTypesettingTool/src/template_parser.py), a single     *)
(*     pass over the paragraphs of the template that keeps a heading       *)
(*     stack, four special modes and at most one open named section;       *)
(*   - the conflict resolver, _resolve_role_conflicts, with its ranking    *)
(*     key _candidate_sort_key.                                            *)
(*                                                                         *)
(* A paragraph is a record of the signals the classifier reads from it.    *)
(* Its text is a sequence of words, so that keyword matching is a          *)
(* substring test as in _keyword_matches; the results of the regular       *)
(* expressions and of the style look-ups are fields of the record.         *)
(* A paragraph's style id may be empty: _record then drops the entry.      *)
(***************************************************************************)
EXTENDS Integers, Sequences, FiniteSets, TLC

VARIABLES
    paragraphs,             \* the paragraph list of a known document, else <<>>
    paragraph,              \* the loop variable: the paragraph just classified
    before,                 \* the walk's variables as that iteration found them
    paragraph_index,
    title_stack,
    abstract_mode,
    abstract_en_mode,
    reference_mode,
    toc_mode,
    cover_detected,
    cover_title_recorded,
    pending_cover_title,    \* NoPendingTitle, or the style id and index of the paragraph
    document_title_found,
    document_title_en_found,
    document_title_index,   \* 0 = None
    pending_captions,       \* sequence of [type, index]
    active_section,         \* NoSection or [rule, body_role, remaining]
    role_candidates,        \* set of [role, style_id, index, source]: the calls of _record
    walk_done,
    resolver,               \* the conflict resolver: its arguments and its result
    fallback,               \* the fallback engine: the parser's settings and its rules
    detector,               \* the heading-level detector: its arguments and its result
    sampler,                \* the paragraph sampler: the samples of one field
    reader,                 \* the style reader: the catalog and one resolve_style call
    sections,               \* the section rules: one SectionRule construction
    tables,                 \* the table-border classifier: one table's flags
    parses,                 \* two parser instances: their settings and their steps
    builder                 \* the candidate builder of _parse_template

classifierVars ==
    <<paragraphs, paragraph, before, paragraph_index, title_stack, abstract_mode,
      abstract_en_mode, reference_mode, toc_mode, cover_detected,
      cover_title_recorded, pending_cover_title, document_title_found,
      document_title_en_found, document_title_index, pending_captions,
      active_section, role_candidates, walk_done>>

\* The engines after the classifier; each is "idle" where it is not the
\* subject.
engineVars == <<fallback, detector, sampler>>

\* The parts of the program around them, "idle" in the same way.
partVars == <<reader, sections, tables, parses, builder>>

PartsIdle ==
    reader = "idle" /\ sections = "idle" /\ tables = "idle" /\ parses = "idle"
    /\ builder = "idle"

vars == <<classifierVars, resolver, engineVars, partVars>>

-----------------------------------------------------------------------------
(* Bounds of the model.                                                    *)

\* Paragraphs classified in one walk of Spec.
MaxParagraphs == 3

\* Length of the known documents of SpecDoc.
MaxDocLen == 4

\* body_paragraph_limit of the modelled fixed_paragraphs rule.
FixedLimit == 2

\* max_heading_level of the parser configuration (TemplateParser default 6).
MaxHeadingLevel == 2

-----------------------------------------------------------------------------
(* Roles.  A role is [name, level, key]: title_L{k} is ["title_L", k],     *)
(* body_L{k} is ["body_L", k], toc_body_L{k} is ["toc_body_L", k],         *)
(* section_{key}_title and section_{key}_body carry the rule's key; every  *)
(* other role has level 0 and key "".                                      *)

Role(name) == [name |-> name, level |-> 0, key |-> ""]
TitleRole(level) == [name |-> "title_L", level |-> level, key |-> ""]
BodyRole(level) == [name |-> "body_L", level |-> level, key |-> ""]
TocBodyRole(level) == [name |-> "toc_body_L", level |-> level, key |-> ""]
NoRole == Role("")
GLOBAL_BODY_CANDIDATE_ROLE == Role("_global_body_candidate")

\* _extract_title_level_from_role: the level of a title_L{k} role, else None (0).
ExtractTitleLevelFromRole(role) ==
    IF role.name = "title_L" THEN role.level ELSE 0

\* _resolve_role_group over _ROLE_GROUP_PATTERNS; "" stands for None.
ResolveRoleGroup(role) ==
    CASE role.name = "title_L" /\ role.level >= 1 -> "title"
      [] role.name = "body_L" /\ role.level >= 1 -> "body"
      [] role.name \in {"document_title", "document_title_en", "abstract_title",
                        "abstract_en_title", "reference_title"} -> "special_title"
      [] role.name \in {"cover_title", "cover_info"} -> "cover"
      [] role.name \in {"abstract_body", "abstract_en_body", "reference_body",
                        "keyword_line", "figure_body", "table_body"} -> "special_body"
      [] role.name \in {"toc_title", "toc_body"} -> "toc"
      [] role.name = "toc_body_L" /\ role.level >= 1 -> "toc"
      [] role.name \in {"figure_caption", "table_caption"} -> "caption"
      [] role.name \in {"figure_note", "table_note", "footnote_text",
                        "footnote_reference"} -> "note"
      [] OTHER -> ""

-----------------------------------------------------------------------------
(* Section rules (src/section_rules.py).                                   *)

COVER_SECTION_KEY == "cover"

\* The rule list handed to the classifier: the three DEFAULT_SECTION_RULES
\* (one title keyword each, its words in pinyin: "yuanchuang shengming" is
\* U+539F U+521B U+58F0 U+660E, "shouquan shengming" U+6388 U+6743 U+58F0 U+660E,
\* "zhixie" U+81F4 U+8C22), the cover rule of test_cover_content_keywords_detected
\* ("zhuanye" is U+4E13 U+4E1A) and a user rule of the fixed_paragraphs policy
\* with a title keyword and a content keyword.
SectionRules ==
    << [key |-> "original_statement",
        title_keywords |-> {<<"yuanchuang", "shengming">>}, content_keywords |-> {},
        title_style_names |-> {}, position |-> "front",
        body_range |-> "until_next_title", body_paragraph_limit |-> 0],
       [key |-> "authorization_statement",
        title_keywords |-> {<<"shouquan", "shengming">>}, content_keywords |-> {},
        title_style_names |-> {}, position |-> "front",
        body_range |-> "until_blank", body_paragraph_limit |-> 0],
       [key |-> "acknowledgement",
        title_keywords |-> {<<"zhixie">>}, content_keywords |-> {},
        title_style_names |-> {}, position |-> "back",
        body_range |-> "until_next_title", body_paragraph_limit |-> 0],
       [key |-> "cover",
        title_keywords |-> {}, content_keywords |-> {<<"zhuanye">>},
        title_style_names |-> {}, position |-> "first_page",
        body_range |-> "until_blank", body_paragraph_limit |-> 0],
       [key |-> "signature",
        title_keywords |-> {<<"qianming">>}, content_keywords |-> {<<"riqi">>},
        title_style_names |-> {}, position |-> "body",
        body_range |-> "fixed_paragraphs", body_paragraph_limit |-> FixedLimit] >>

NoRule ==
    [key |-> "", title_keywords |-> {}, content_keywords |-> {},
     title_style_names |-> {}, position |-> "body", body_range |-> "",
     body_paragraph_limit |-> 0]

NoSection == [rule |-> NoRule, body_role |-> NoRole, remaining |-> 0]

RuleByKey(key) ==
    SectionRules[CHOOSE i \in 1..Len(SectionRules) : SectionRules[i].key = key]

\* _section_title_role
SectionTitleRole(rule) ==
    IF rule.key = COVER_SECTION_KEY THEN Role("cover_title")
    ELSE [name |-> "section_title", level |-> 0, key |-> rule.key]

\* _section_body_role
SectionBodyRole(rule) ==
    IF rule.key = COVER_SECTION_KEY THEN Role("cover_info")
    ELSE [name |-> "section_body", level |-> 0, key |-> rule.key]

\* _keyword_matches: the keyword occurs in the text (both non-empty).
KeywordMatches(text, keyword) ==
    /\ text # <<>>
    /\ keyword # <<>>
    /\ \E i \in 1..Len(text) :
          /\ i + Len(keyword) - 1 <= Len(text)
          /\ SubSeq(text, i, i + Len(keyword) - 1) = keyword

\* _section_position_matches: p.positions holds the positions the layout of
\* the document puts the paragraph in; SectionPosition.BODY matches anywhere.
SectionPositionMatches(rule, p) ==
    rule.position = "body" \/ rule.position \in p.positions

TitleMatches(rule, p) ==
    /\ SectionPositionMatches(rule, p)
    /\ \/ \E keyword \in rule.title_keywords : KeywordMatches(p.text, keyword)
       \/ /\ rule.title_style_names # {}
          /\ p.style_name # ""
          /\ p.style_name \in rule.title_style_names

\* _match_section_title: the first rule of the list that matches, or None.
MatchSectionTitle(p) ==
    IF p.text = <<>> \/ \A i \in 1..Len(SectionRules) : ~TitleMatches(SectionRules[i], p)
    THEN NoRule
    ELSE SectionRules[CHOOSE i \in 1..Len(SectionRules) :
            /\ TitleMatches(SectionRules[i], p)
            /\ \A j \in 1..(i - 1) : ~TitleMatches(SectionRules[j], p)]

ContentMatches(rule, p) ==
    /\ rule.content_keywords # {}
    /\ SectionPositionMatches(rule, p)
    /\ \E keyword \in rule.content_keywords : KeywordMatches(p.text, keyword)

\* _match_section_content
MatchSectionContent(p) ==
    IF p.text = <<>> \/ \A i \in 1..Len(SectionRules) : ~ContentMatches(SectionRules[i], p)
    THEN NoRule
    ELSE SectionRules[CHOOSE i \in 1..Len(SectionRules) :
            /\ ContentMatches(SectionRules[i], p)
            /\ \A j \in 1..(i - 1) : ~ContentMatches(SectionRules[j], p)]

\* _next_active_section that opens no section.
NextActiveSectionNone(rule) == NoSection

\* _next_active_section: the section state after a content-keyword paragraph
\* has been recorded as the first body paragraph of the rule.
NextActiveSection(rule) ==
    LET remaining == IF rule.body_range = "fixed_paragraphs"
                     THEN rule.body_paragraph_limit - 1
                     ELSE rule.body_paragraph_limit
    IN IF rule.body_range = "fixed_paragraphs" /\ remaining <= 0
       THEN NoSection
       ELSE [rule |-> rule, body_role |-> SectionBodyRole(rule), remaining |-> remaining]

\* The section state a matched title opens (lines 2750-2754).
OpenedSection(rule) ==
    [rule |-> rule, body_role |-> SectionBodyRole(rule),
     remaining |-> rule.body_paragraph_limit]

-----------------------------------------------------------------------------
(* Paragraph signals.                                                      *)

AllPositions == {"first_page", "front", "back", "last_page"}

\* _is_blank_paragraph: no run of the paragraph holds a visible character.
IsBlankParagraph(p) == p.text = <<>>

\* _extract_formula_flags: has_formula_number and has_non_number_text of a
\* paragraph that holds a math object; the word "(1)" is a formula number.
HasFormulaNumber(p) == \E i \in 1..Len(p.text) : p.text[i] = "(1)"
HasNonNumberText(p) == \E i \in 1..Len(p.text) : p.text[i] # "(1)"

\* Lines 2758-2802: the title role of the paragraph, NoRole for None.
\* text_role is the result of _match_special_role_by_text_value after the
\* caption-presence filter, normalized_level the paragraph's outline level
\* on the normalized scale, style_role the result of
\* _match_special_role_by_style_name, style_level that of
\* _parse_heading_level_from_name and heading_level the level of
\* _match_title_role_by_text_value (0 for None each).
DetectTitleRole(p) ==
    IF p.explicit_role # NoRole
       /\ ResolveRoleGroup(p.explicit_role) \in {"title", "special_title", "caption"}
    THEN p.explicit_role
    ELSE LET by_text == IF p.caption_role # NoRole THEN p.caption_role ELSE p.text_role
             by_outline ==
                 IF by_text = NoRole /\ p.normalized_level > 0
                    /\ p.normalized_level <= MaxHeadingLevel
                 THEN TitleRole(p.normalized_level) ELSE by_text
             by_style ==
                 IF by_outline # NoRole THEN by_outline
                 ELSE IF p.style_role # NoRole THEN p.style_role
                 ELSE IF p.style_level > 0 /\ p.style_level <= MaxHeadingLevel
                 THEN TitleRole(p.style_level) ELSE NoRole
         IN IF by_style # NoRole THEN by_style
            ELSE IF p.heading_level > 0 /\ p.heading_level <= MaxHeadingLevel
            THEN TitleRole(p.heading_level) ELSE NoRole

-----------------------------------------------------------------------------
(* The loop body of _collect_body_candidates_by_stack, lines 2535-2943.    *)
(* s is the record of the walk's local variables; s.rec collects the calls *)
(* of _record made for the paragraph.  The stages are written last first.  *)

\* pending_cover_title is None.
NoPendingTitle == [style_id |-> "", index |-> 0]

\* _record: one call that reaches the role's candidate map.  A paragraph
\* without a style id is dropped unless allow_missing_style is set.
Record(s, role, style_id, index, source, allow_missing_style) ==
    IF style_id = "" /\ ~allow_missing_style THEN s
    ELSE [s EXCEPT !.rec = @ \cup {[role |-> role, style_id |-> style_id,
                                    index |-> index, source |-> source]}]

\* _record for the paragraph of the iteration.
RecordHere(s, role, source) ==
    Record(s, role, s.style_id, s.paragraph_index, source, FALSE)

\* _prune_pending: captions more than two paragraphs back are dropped.
PrunePending(s) ==
    [s EXCEPT !.pending_captions =
        SelectSeq(@, LAMBDA item : s.paragraph_index - item.index <= 2)]

\* _commit_cover_title
CommitCoverTitle(s) ==
    IF s.cover_title_recorded \/ s.pending_cover_title = NoPendingTitle THEN s
    ELSE [Record(s, Role("cover_title"), s.pending_cover_title.style_id,
                 s.pending_cover_title.index, "stack", FALSE)
            EXCEPT !.cover_title_recorded = TRUE,
                   !.pending_cover_title = NoPendingTitle]

\* _commit_document_title_from_pending
CommitDocumentTitleFromPending(s) ==
    IF s.document_title_found \/ s.pending_cover_title = NoPendingTitle THEN s
    ELSE [Record(s, Role("document_title"), s.pending_cover_title.style_id,
                 s.pending_cover_title.index, "stack", FALSE)
            EXCEPT !.document_title_found = TRUE,
                   !.document_title_index = s.pending_cover_title.index,
                   !.pending_cover_title = NoPendingTitle]

\* Lines 2925-2941: superscript and subscript runs of the paragraph
\* (_register_run_style keeps the entry whatever the style id).
RegisterRunStyles(s, p) ==
    IF p.script # ""
    THEN Record(s, Role(p.script), s.style_id, s.paragraph_index, "run", TRUE)
    ELSE s

\* BodyFallback that reads the bottom of the heading stack.
BodyFallbackBottom(s, p) ==
    IF IsBlankParagraph(p) THEN s
    ELSE IF s.title_stack # <<>>
    THEN RecordHere(s, BodyRole(s.title_stack[1]), "stack")
    ELSE RecordHere(s, GLOBAL_BODY_CANDIDATE_ROLE, "global")

\* Lines 2918-2923: the body fallback.
BodyFallback(s, p) ==
    IF IsBlankParagraph(p) THEN s
    ELSE IF s.title_stack # <<>>
    THEN RecordHere(s, BodyRole(s.title_stack[Len(s.title_stack)]), "stack")
    ELSE RecordHere(s, GLOBAL_BODY_CANDIDATE_ROLE, "global")

BodyStage(s, p) == RegisterRunStyles(BodyFallback(s, p), p)

\* Lines 2903-2916: a note line after a pending caption.
NoteStage(s, p) ==
    LET near == {i \in 1..Len(s.pending_captions) :
                    /\ s.paragraph_index - s.pending_captions[i].index >= 1
                    /\ s.paragraph_index - s.pending_captions[i].index <= 2}
    IN IF s.pending_captions # <<>> /\ p.note /\ near # {}
       THEN LET chosen == CHOOSE i \in near :
                    \A j \in near : s.pending_captions[i].index >= s.pending_captions[j].index
                note_role == IF s.pending_captions[chosen].type = "figure"
                             THEN Role("figure_note") ELSE Role("table_note")
                left == [j \in 1..(Len(s.pending_captions) - 1) |->
                            IF j < chosen THEN s.pending_captions[j]
                            ELSE s.pending_captions[j + 1]]
            IN [RecordHere(s, note_role, "stack") EXCEPT !.pending_captions = left]
       ELSE BodyStage(s, p)

\* Lines 2888-2902: the bodies of the abstract and reference modes.
ModeStage(s, p) ==
    IF s.abstract_en_mode
    THEN IF IsBlankParagraph(p) THEN s ELSE RecordHere(s, Role("abstract_en_body"), "stack")
    ELSE IF s.abstract_mode
    THEN IF IsBlankParagraph(p) THEN s ELSE RecordHere(s, Role("abstract_body"), "stack")
    ELSE IF s.reference_mode
    THEN IF IsBlankParagraph(p) THEN s ELSE RecordHere(s, Role("reference_body"), "stack")
    ELSE NoteStage(s, p)

\* Lines 2883-2886: the keyword line.
KeywordStage(s, p) ==
    IF ~IsBlankParagraph(p) /\ p.keyword_line
    THEN RecordHere(s, Role("keyword_line"), "stack")
    ELSE ModeStage(s, p)

\* PopTitleStack with a strict comparison: an equal level stays on the stack.
RECURSIVE PopTitleStackStrict(_, _)
PopTitleStackStrict(stack, level) ==
    IF stack # <<>> /\ stack[Len(stack)] > level
    THEN PopTitleStackStrict(SubSeq(stack, 1, Len(stack) - 1), level)
    ELSE stack

\* Lines 2870-2871: pop the heading stack while its top is >= level.
RECURSIVE PopTitleStack(_, _)
PopTitleStack(stack, level) ==
    IF stack # <<>> /\ stack[Len(stack)] >= level
    THEN PopTitleStack(SubSeq(stack, 1, Len(stack) - 1), level)
    ELSE stack

\* Lines 2870-2872: pop, then push level.
PushTitleLevel(stack, level) == Append(PopTitleStack(stack, level), level)

\* EnterTitle with an abstract title that leaves reference mode on.
EnterTitleKeepsReference(s, title_role) ==
    CASE title_role.name = "abstract_title" ->
            [s EXCEPT !.abstract_mode = TRUE, !.abstract_en_mode = FALSE,
                      !.title_stack = <<>>, !.toc_mode = FALSE]
      [] title_role.name = "abstract_en_title" ->
            [s EXCEPT !.abstract_en_mode = TRUE, !.abstract_mode = FALSE,
                      !.reference_mode = FALSE, !.title_stack = <<>>,
                      !.toc_mode = FALSE]
      [] title_role.name = "reference_title" ->
            [s EXCEPT !.reference_mode = TRUE, !.abstract_mode = FALSE,
                      !.abstract_en_mode = FALSE, !.title_stack = <<>>,
                      !.toc_mode = FALSE]
      [] title_role.name = "toc_title" ->
            [s EXCEPT !.toc_mode = TRUE, !.abstract_mode = FALSE,
                      !.abstract_en_mode = FALSE, !.reference_mode = FALSE,
                      !.title_stack = <<>>]
      [] title_role.name = "title_L" ->
            [s EXCEPT !.abstract_mode = FALSE, !.abstract_en_mode = FALSE,
                      !.reference_mode = FALSE, !.toc_mode = FALSE,
                      !.title_stack =
                          PushTitleLevel(@, IF ExtractTitleLevelFromRole(title_role) = 0
                                            THEN 1
                                            ELSE ExtractTitleLevelFromRole(title_role))]
      [] title_role.name \in {"figure_caption", "table_caption"} ->
            [s EXCEPT !.abstract_mode = FALSE, !.reference_mode = FALSE,
                      !.toc_mode = FALSE,
                      !.pending_captions =
                          Append(@, [type |-> IF title_role.name = "figure_caption"
                                              THEN "figure" ELSE "table",
                                     index |-> s.paragraph_index])]
      [] OTHER -> s

\* Lines 2840-2879: the effect of a title role on the modes and the stack.
EnterTitle(s, title_role) ==
    CASE title_role.name = "abstract_title" ->
            [s EXCEPT !.abstract_mode = TRUE, !.abstract_en_mode = FALSE,
                      !.reference_mode = FALSE, !.title_stack = <<>>,
                      !.toc_mode = FALSE]
      [] title_role.name = "abstract_en_title" ->
            [s EXCEPT !.abstract_en_mode = TRUE, !.abstract_mode = FALSE,
                      !.reference_mode = FALSE, !.title_stack = <<>>,
                      !.toc_mode = FALSE]
      [] title_role.name = "reference_title" ->
            [s EXCEPT !.reference_mode = TRUE, !.abstract_mode = FALSE,
                      !.abstract_en_mode = FALSE, !.title_stack = <<>>,
                      !.toc_mode = FALSE]
      [] title_role.name = "toc_title" ->
            [s EXCEPT !.toc_mode = TRUE, !.abstract_mode = FALSE,
                      !.abstract_en_mode = FALSE, !.reference_mode = FALSE,
                      !.title_stack = <<>>]
      [] title_role.name = "title_L" ->
            [s EXCEPT !.abstract_mode = FALSE, !.abstract_en_mode = FALSE,
                      !.reference_mode = FALSE, !.toc_mode = FALSE,
                      !.title_stack =
                          PushTitleLevel(@, IF ExtractTitleLevelFromRole(title_role) = 0
                                            THEN 1
                                            ELSE ExtractTitleLevelFromRole(title_role))]
      [] title_role.name \in {"figure_caption", "table_caption"} ->
            [s EXCEPT !.abstract_mode = FALSE, !.reference_mode = FALSE,
                      !.toc_mode = FALSE,
                      !.pending_captions =
                          Append(@, [type |-> IF title_role.name = "figure_caption"
                                              THEN "figure" ELSE "table",
                                     index |-> s.paragraph_index])]
      [] OTHER -> s

\* Lines 2832-2881: a paragraph with a title role.
TitleStage(s, p) ==
    LET title_role == DetectTitleRole(p)
        committed == IF title_role # NoRole /\ s.pending_cover_title # NoPendingTitle
                        /\ ~s.cover_detected
                     THEN CommitDocumentTitleFromPending(s) ELSE s
        recorded == IF IsBlankParagraph(p) THEN committed
                    ELSE RecordHere(committed, title_role,
                                    IF p.explicit_role # NoRole THEN "explicit" ELSE "stack")
    IN IF title_role # NoRole THEN EnterTitle(recorded, title_role)
       ELSE KeywordStage(committed, p)

\* Lines 2826-2830: an explicit body, special-body or note mapping.
ExplicitBodyStage(s, p) ==
    IF p.explicit_role # NoRole
       /\ ResolveRoleGroup(p.explicit_role) \in {"body", "special_body", "note"}
    THEN IF IsBlankParagraph(p) THEN s ELSE RecordHere(s, p.explicit_role, "explicit")
    ELSE TitleStage(s, p)

\* ActiveSectionStage with a section of fixed_paragraphs that takes one
\* paragraph more than its limit.
ActiveSectionStageOneMore(s, p) ==
    IF s.active_section # NoSection /\ ~IsBlankParagraph(p)
    THEN LET rule == s.active_section.rule
             body == RecordHere(s, s.active_section.body_role, "stack")
         IN CASE rule.body_range = "fixed_paragraphs" ->
                    IF s.active_section.remaining - 1 < 0
                    THEN [body EXCEPT !.active_section = NoSection]
                    ELSE [body EXCEPT !.active_section.remaining = @ - 1]
              [] rule.body_range = "until_next_title" ->
                    IF DetectTitleRole(p) = NoRole THEN body
                    ELSE ExplicitBodyStage([s EXCEPT !.active_section = NoSection], p)
              [] rule.body_range = "until_blank" -> body
              [] OTHER -> ExplicitBodyStage(s, p)
    ELSE ExplicitBodyStage(s, p)

\* Lines 2804-2824: the body of the open section under its range policy.
ActiveSectionStage(s, p) ==
    IF s.active_section # NoSection /\ ~IsBlankParagraph(p)
    THEN LET rule == s.active_section.rule
             body == RecordHere(s, s.active_section.body_role, "stack")
         IN CASE rule.body_range = "fixed_paragraphs" ->
                    IF s.active_section.remaining - 1 <= 0
                    THEN [body EXCEPT !.active_section = NoSection]
                    ELSE [body EXCEPT !.active_section.remaining = @ - 1]
              [] rule.body_range = "until_next_title" ->
                    IF DetectTitleRole(p) = NoRole THEN body
                    ELSE ExplicitBodyStage([s EXCEPT !.active_section = NoSection], p)
              [] rule.body_range = "until_blank" -> body
              [] OTHER -> ExplicitBodyStage(s, p)
    ELSE ExplicitBodyStage(s, p)

\* Lines 2726-2756: a section title opens its section.
SectionTitleStage(s, p) ==
    LET found == MatchSectionTitle(p)
        matched_section ==
            IF s.active_section # NoSection /\ found # NoRule
               /\ found.key = s.active_section.rule.key
            THEN NoRule ELSE found
    IN IF matched_section # NoRule /\ ~IsBlankParagraph(p)
       THEN IF matched_section.key = COVER_SECTION_KEY /\ s.enable_cover_detection
            THEN CommitCoverTitle([s EXCEPT !.cover_detected = TRUE])
            ELSE [RecordHere(s, SectionTitleRole(matched_section), "stack")
                    EXCEPT !.active_section = OpenedSection(matched_section)]
       ELSE ActiveSectionStage(s, p)

\* A mutation of the inline-abstract step that leaves the heading stack alone.
InlineAbstractStageKeepsStack(s, p) ==
    IF p.inline_abstract # NoRole /\ ~IsBlankParagraph(p)
    THEN LET body_role == IF p.inline_abstract.name = "abstract_title"
                          THEN Role("abstract_body") ELSE Role("abstract_en_body")
             both == RecordHere(RecordHere(s, p.inline_abstract, "stack"),
                                body_role, "stack")
         IN IF p.inline_abstract.name = "abstract_title"
            THEN [both EXCEPT !.abstract_mode = TRUE, !.abstract_en_mode = FALSE,
                              !.reference_mode = FALSE,
                              !.toc_mode = FALSE]
            ELSE [both EXCEPT !.abstract_en_mode = TRUE, !.abstract_mode = FALSE,
                              !.reference_mode = FALSE,
                              !.toc_mode = FALSE]
    ELSE SectionTitleStage(s, p)

\* Lines 2702-2724: "abstract: text" on one line is title and body at once.
InlineAbstractStage(s, p) ==
    IF p.inline_abstract # NoRole /\ ~IsBlankParagraph(p)
    THEN LET body_role == IF p.inline_abstract.name = "abstract_title"
                          THEN Role("abstract_body") ELSE Role("abstract_en_body")
             both == RecordHere(RecordHere(s, p.inline_abstract, "stack"),
                                body_role, "stack")
         IN IF p.inline_abstract.name = "abstract_title"
            THEN [both EXCEPT !.abstract_mode = TRUE, !.abstract_en_mode = FALSE,
                              !.reference_mode = FALSE, !.title_stack = <<>>,
                              !.toc_mode = FALSE]
            ELSE [both EXCEPT !.abstract_en_mode = TRUE, !.abstract_mode = FALSE,
                              !.reference_mode = FALSE, !.title_stack = <<>>,
                              !.toc_mode = FALSE]
    ELSE SectionTitleStage(s, p)

\* Lines 2682-2700: a candidate for the document title.
DocumentTitleStage(s, p) ==
    IF ~s.document_title_found /\ ~IsBlankParagraph(p) /\ p.document_title_candidate
    THEN IF s.cover_detected /\ s.enable_cover_detection
         THEN IF ~s.cover_title_recorded
              THEN [RecordHere(s, Role("cover_title"), "stack")
                      EXCEPT !.cover_title_recorded = TRUE]
              ELSE s
         ELSE IF s.cover_detected THEN s
         ELSE IF s.pending_cover_title = NoPendingTitle
         THEN [s EXCEPT !.pending_cover_title =
                           [style_id |-> s.style_id, index |-> s.paragraph_index]]
         ELSE s
    ELSE InlineAbstractStage(s, p)

\* Lines 2669-2680: the English document title, within six paragraphs of the title.
DocumentTitleEnStage(s, p) ==
    IF /\ s.document_title_found
       /\ ~s.document_title_en_found
       /\ ~IsBlankParagraph(p)
       /\ s.document_title_index # 0
       /\ s.paragraph_index - s.document_title_index <= 6
       /\ p.document_title_en_candidate
    THEN [RecordHere(s, Role("document_title_en"), "stack")
            EXCEPT !.document_title_en_found = TRUE]
    ELSE DocumentTitleStage(s, p)

\* Lines 2639-2667: a paragraph that matches content keywords only.
SectionContentStage(s, p) ==
    LET matched_section == MatchSectionTitle(p)
        matched_content ==
            IF ~IsBlankParagraph(p) /\ matched_section = NoRule
            THEN MatchSectionContent(p) ELSE NoRule
        other_section == \/ s.active_section = NoSection
                         \/ matched_content.key # s.active_section.rule.key
    IN IF matched_content # NoRule /\ other_section
          /\ (matched_content.key = COVER_SECTION_KEY => s.enable_cover_detection)
       THEN IF matched_content.key = COVER_SECTION_KEY
            THEN [RecordHere(CommitCoverTitle([s EXCEPT !.cover_detected = TRUE]),
                             Role("cover_info"), "stack")
                    EXCEPT !.active_section = NextActiveSection(matched_content)]
            ELSE [RecordHere(s, SectionBodyRole(matched_content), "stack")
                    EXCEPT !.active_section = NextActiveSection(matched_content)]
       ELSE DocumentTitleEnStage(s, p)

\* Lines 2627-2637: an entry of the table of contents, or the end of TOC mode.
TocStage(s, p) ==
    IF s.toc_mode /\ ~IsBlankParagraph(p)
    THEN IF p.toc_entry
         THEN RecordHere(s, IF p.toc_level = 0 THEN Role("toc_body")
                            ELSE TocBodyRole(p.toc_level), "stack")
         ELSE SectionContentStage([s EXCEPT !.toc_mode = FALSE], p)
    ELSE SectionContentStage(s, p)

\* Lines 2621-2625: a paragraph that holds a drawing.
DrawingStage(s, p) ==
    IF p.has_drawing
    THEN IF IsBlankParagraph(p) THEN RecordHere(s, Role("figure_body"), "stack")
         ELSE TocStage(RecordHere(s, Role("figure_body"), "stack"), p)
    ELSE TocStage(s, p)

\* Lines 2615-2619: a paragraph of a table cell.
TableStage(s, p) ==
    IF p.in_table
    THEN IF IsBlankParagraph(p) THEN s ELSE RecordHere(s, Role("table_body"), "stack")
    ELSE DrawingStage(s, p)

\* Lines 2575-2614: a paragraph that holds a math object.
FormulaStage(s, p) ==
    IF p.has_math
    THEN LET formula == RecordHere(s, IF HasNonNumberText(p) THEN Role("formula_inline")
                                      ELSE Role("formula_block"), "stack")
             numbered == IF HasFormulaNumber(p)
                         THEN Record(formula, Role("formula_number"), s.style_id,
                                     s.paragraph_index, "stack", TRUE)
                         ELSE formula
             scripts == RegisterRunStyles(numbered, p)
         IN IF HasNonNumberText(p) THEN TableStage(scripts, p) ELSE scripts
    ELSE TableStage(s, p)

\* BlankStage with a blank paragraph that leaves abstract mode on.
BlankStageKeepsAbstract(s, p) ==
    LET blank == IsBlankParagraph(p) /\ ~p.has_drawing
    IN IF s.active_section # NoSection
          /\ s.active_section.rule.body_range = "until_blank" /\ blank
       THEN [s EXCEPT !.active_section = NoSection]
       ELSE IF s.abstract_en_mode /\ blank THEN [s EXCEPT !.abstract_en_mode = FALSE]
       ELSE IF s.abstract_mode /\ blank THEN s
       ELSE IF s.reference_mode /\ blank THEN s
       ELSE FormulaStage(s, p)

\* BlankStage with a blank paragraph that leaves an until_blank section open.
BlankStageKeepsSection(s, p) ==
    LET blank == IsBlankParagraph(p) /\ ~p.has_drawing
    IN IF s.abstract_en_mode /\ blank THEN [s EXCEPT !.abstract_en_mode = FALSE]
       ELSE IF s.abstract_mode /\ blank THEN [s EXCEPT !.abstract_mode = FALSE]
       ELSE IF s.reference_mode /\ blank THEN s
       ELSE FormulaStage(s, p)

\* Lines 2554-2574: what a blank paragraph closes.
BlankStage(s, p) ==
    LET blank == IsBlankParagraph(p) /\ ~p.has_drawing
    IN IF s.active_section # NoSection
          /\ s.active_section.rule.body_range = "until_blank" /\ blank
       THEN [s EXCEPT !.active_section = NoSection]
       ELSE IF s.abstract_en_mode /\ blank THEN [s EXCEPT !.abstract_en_mode = FALSE]
       ELSE IF s.abstract_mode /\ blank THEN [s EXCEPT !.abstract_mode = FALSE]
       ELSE IF s.reference_mode /\ blank THEN s
       ELSE FormulaStage(s, p)

\* One iteration of the loop, lines 2535-2943: every exit prunes the pending captions.
ProcessParagraph(s, p) ==
    PrunePending(BlankStage([s EXCEPT !.paragraph_index = @ + 1,
                                      !.style_id = p.style_id, !.rec = {}], p))

\* Lines 2945-2949: what is committed at the end of the document.
EndOfWalk(s) ==
    IF s.pending_cover_title # NoPendingTitle
    THEN IF s.cover_detected /\ ~s.cover_title_recorded THEN CommitCoverTitle(s)
         ELSE IF ~s.document_title_found THEN CommitDocumentTitleFromPending(s)
         ELSE s
    ELSE s

-----------------------------------------------------------------------------
(* The paragraphs the walk is fed.                                         *)

PlainParagraph(text) ==
    [text |-> text, style_id |-> "Normal", style_name |-> "Normal", positions |-> AllPositions,
     in_table |-> FALSE, has_drawing |-> FALSE, has_math |-> FALSE,
     explicit_role |-> NoRole, caption_role |-> NoRole, text_role |-> NoRole,
     normalized_level |-> 0, style_role |-> NoRole, style_level |-> 0,
     heading_level |-> 0, keyword_line |-> FALSE, note |-> FALSE,
     toc_entry |-> FALSE, toc_level |-> 0,
     document_title_candidate |-> FALSE, document_title_en_candidate |-> FALSE,
     inline_abstract |-> NoRole, script |-> ""]

BodyText == PlainParagraph(<<"content">>)
BlankText == PlainParagraph(<<>>)

\* The texts that hit a keyword of SectionRules.
SectionTexts ==
    {<<"yuanchuang", "shengming">>, <<"shouquan", "shengming">>, <<"zhixie">>,
     <<"zhuanye">>, <<"qianming">>, <<"riqi">>}

\* Paragraphs of visible text: plain text, the section texts, and the plain
\* text with one more signal.
TextParagraphs ==
    {BodyText}
    \cup {PlainParagraph(t) : t \in SectionTexts}
    \cup {[PlainParagraph(t) EXCEPT !.positions = {}] :
            t \in {<<"yuanchuang", "shengming">>, <<"zhuanye">>}}
    \cup {[BodyText EXCEPT !.in_table = TRUE],
          [BodyText EXCEPT !.has_drawing = TRUE],
          [BodyText EXCEPT !.has_math = TRUE],
          [BodyText EXCEPT !.has_math = TRUE, !.text = <<"(1)">>],
          [BodyText EXCEPT !.script = "superscript"],
          [BodyText EXCEPT !.toc_entry = TRUE],
          [BodyText EXCEPT !.toc_entry = TRUE, !.toc_level = 1],
          [BodyText EXCEPT !.document_title_candidate = TRUE],
          [BodyText EXCEPT !.document_title_candidate = TRUE,
                           !.document_title_en_candidate = TRUE],
          [BodyText EXCEPT !.keyword_line = TRUE],
          [BodyText EXCEPT !.note = TRUE],
          [BodyText EXCEPT !.caption_role = Role("figure_caption")]}
    \cup {[BodyText EXCEPT !.inline_abstract = Role(r)] :
            r \in {"abstract_title", "abstract_en_title"}}
    \cup {[BodyText EXCEPT !.text_role = Role(r)] :
            r \in {"abstract_title", "abstract_en_title", "reference_title",
                   "toc_title", "table_caption"}}
    \cup {[BodyText EXCEPT !.explicit_role = r] :
            r \in {TitleRole(1), TitleRole(MaxHeadingLevel + 1), BodyRole(2),
                   Role("reference_body"), Role("toc_title")}}
    \cup {[BodyText EXCEPT !.normalized_level = l] : l \in 1..(MaxHeadingLevel + 1)}
    \cup {[BodyText EXCEPT !.style_level = l] : l \in 1..2}
    \cup {[BodyText EXCEPT !.heading_level = l] : l \in 1..2}
    \cup {[BodyText EXCEPT !.style_role = Role(r)] :
            r \in {"document_title", "toc_body", "abstract_title"}}
    \cup {[PlainParagraph(<<"zhixie">>) EXCEPT !.style_level = 1],
          [PlainParagraph(<<"riqi">>) EXCEPT !.heading_level = 1],
          [PlainParagraph(<<"qianming">>) EXCEPT !.document_title_candidate = TRUE]}
    \cup {[q EXCEPT !.style_id = "", !.style_name = ""] :
            q \in {BodyText, PlainParagraph(<<"yuanchuang", "shengming">>),
                   [BodyText EXCEPT !.heading_level = 1]}}

\* Paragraphs without visible text: only what the style and the objects of
\* the paragraph say can be set.
BlankParagraphs ==
    {BlankText,
     [BlankText EXCEPT !.in_table = TRUE],
     [BlankText EXCEPT !.has_drawing = TRUE],
     [BlankText EXCEPT !.has_math = TRUE],
     [BlankText EXCEPT !.explicit_role = TitleRole(1)],
     [BlankText EXCEPT !.explicit_role = BodyRole(2)],
     [BlankText EXCEPT !.normalized_level = 2],
     [BlankText EXCEPT !.style_level = 1],
     [BlankText EXCEPT !.style_role = Role("abstract_title")],
     [BlankText EXCEPT !.note = TRUE]}

Paragraphs == TextParagraphs \cup BlankParagraphs

-----------------------------------------------------------------------------
(* The walk.                                                               *)

\* Lines 399-401: cover detection is on when the rule list holds a cover rule.
EnableCoverDetection ==
    \E i \in 1..Len(SectionRules) : SectionRules[i].key = COVER_SECTION_KEY

\* The local variables of the walk as one record.
Walk ==
    [paragraph_index |-> paragraph_index, title_stack |-> title_stack,
     abstract_mode |-> abstract_mode, abstract_en_mode |-> abstract_en_mode,
     reference_mode |-> reference_mode, toc_mode |-> toc_mode,
     cover_detected |-> cover_detected,
     cover_title_recorded |-> cover_title_recorded,
     pending_cover_title |-> pending_cover_title,
     document_title_found |-> document_title_found,
     document_title_en_found |-> document_title_en_found,
     document_title_index |-> document_title_index,
     pending_captions |-> pending_captions, active_section |-> active_section,
     enable_cover_detection |-> EnableCoverDetection,
     style_id |-> "", rec |-> {}]

\* Lines 2099-2114: the state before the first paragraph.
InitialWalk ==
    [paragraph_index |-> 0, title_stack |-> <<>>,
     abstract_mode |-> FALSE, abstract_en_mode |-> FALSE,
     reference_mode |-> FALSE, toc_mode |-> FALSE,
     cover_detected |-> FALSE, cover_title_recorded |-> FALSE,
     pending_cover_title |-> NoPendingTitle, document_title_found |-> FALSE,
     document_title_en_found |-> FALSE, document_title_index |-> 0,
     pending_captions |-> <<>>, active_section |-> NoSection,
     enable_cover_detection |-> EnableCoverDetection,
     style_id |-> "", rec |-> {}]

InitWalk ==
    /\ paragraph = BlankText
    /\ before = InitialWalk
    /\ paragraph_index = 0
    /\ title_stack = <<>>
    /\ abstract_mode = FALSE
    /\ abstract_en_mode = FALSE
    /\ reference_mode = FALSE
    /\ toc_mode = FALSE
    /\ cover_detected = FALSE
    /\ cover_title_recorded = FALSE
    /\ pending_cover_title = NoPendingTitle
    /\ document_title_found = FALSE
    /\ document_title_en_found = FALSE
    /\ document_title_index = 0
    /\ pending_captions = <<>>
    /\ active_section = NoSection
    /\ role_candidates = {}
    /\ walk_done = FALSE

SetWalk(r) ==
    /\ paragraph_index' = r.paragraph_index
    /\ title_stack' = r.title_stack
    /\ abstract_mode' = r.abstract_mode
    /\ abstract_en_mode' = r.abstract_en_mode
    /\ reference_mode' = r.reference_mode
    /\ toc_mode' = r.toc_mode
    /\ cover_detected' = r.cover_detected
    /\ cover_title_recorded' = r.cover_title_recorded
    /\ pending_cover_title' = r.pending_cover_title
    /\ document_title_found' = r.document_title_found
    /\ document_title_en_found' = r.document_title_en_found
    /\ document_title_index' = r.document_title_index
    /\ pending_captions' = r.pending_captions
    /\ active_section' = r.active_section

\* The documents walked paragraph by paragraph with role_candidates
\* accumulating: the paragraphs are those a test builds with
\* doc.add_paragraph(text), plus a numbered heading.
DocParagraphs ==
    {BlankText, BodyText,
     PlainParagraph(<<"yuanchuang", "shengming">>),
     PlainParagraph(<<"shouquan", "shengming">>),
     PlainParagraph(<<"zhixie">>),
     PlainParagraph(<<"qianming">>),
     PlainParagraph(<<"riqi">>),
     [BodyText EXCEPT !.heading_level = 1]}

\* Every sequence over S of length 1..n.
RECURSIVE SeqsUpTo(_, _)
SeqsUpTo(S, n) ==
    IF n = 0 THEN {}
    ELSE LET shorter == SeqsUpTo(S, n - 1)
         IN {<<x>> : x \in S} \cup {Append(d, x) : d \in shorter, x \in S}

\* paragraphs is either a known document, or <<>> for a document that is not
\* fixed in advance: its paragraphs are then drawn one at a time.
Init ==
    /\ InitWalk
    /\ paragraphs \in {<<>>} \cup SeqsUpTo(DocParagraphs, MaxDocLen)
    /\ resolver = "idle"
    /\ fallback = "idle"
    /\ detector = "idle"
    /\ sampler = "idle"
    /\ PartsIdle

\* One iteration of the loop over a paragraph of any kind.  role_candidates
\* keeps the entries of the paragraph just classified only: the walk never
\* reads role_candidates.
ClassifyParagraph ==
    /\ ~walk_done
    /\ paragraphs = <<>>
    /\ paragraph_index < MaxParagraphs
    /\ \E p \in Paragraphs :
          LET r == ProcessParagraph(Walk, p)
          IN /\ SetWalk(r)
             /\ paragraph' = p
             /\ before' = Walk
             /\ role_candidates' = r.rec
    /\ UNCHANGED <<paragraphs, walk_done, resolver, engineVars, partVars>>

\* One iteration of the loop over the next paragraph of a known document.
ClassifyNext ==
    /\ ~walk_done
    /\ paragraph_index < Len(paragraphs)
    /\ LET p == paragraphs[paragraph_index + 1]
           r == ProcessParagraph(Walk, p)
       IN /\ SetWalk(r)
          /\ paragraph' = p
          /\ before' = Walk
          /\ role_candidates' = role_candidates \cup r.rec
    /\ UNCHANGED <<paragraphs, walk_done, resolver, engineVars, partVars>>

\* The loop is over: lines 2945-2951.
EndOfDocument ==
    /\ ~walk_done
    /\ paragraphs = <<>> \/ paragraph_index = Len(paragraphs)
    /\ LET r == EndOfWalk(Walk)
       IN /\ SetWalk(r)
          /\ role_candidates' = role_candidates \cup r.rec
    /\ walk_done' = TRUE
    /\ UNCHANGED <<paragraphs, paragraph, before, resolver, engineVars, partVars>>

Next == ClassifyParagraph \/ ClassifyNext \/ EndOfDocument

Spec == Init /\ [][Next]_vars

-----------------------------------------------------------------------------
(* The conflict resolver: _candidate_sort_key, _choose_best_candidate and  *)
(* _resolve_role_conflicts.  A candidate is a record                       *)
(*   [style_id, source, count, order, fields, toc_level]:                  *)
(* resolved.style_id ("" for None), the source, stats.count,               *)
(* stats.first_index, the REQUIRED_FIELDS the StyleRule built from it has  *)
(* set, and the TOC level parsed from the style name (0 for None).         *)

\* _SOURCE_PRIORITY, and 99 for a source it does not list.
SOURCE_PRIORITY ==
    [explicit |-> 0, stack |-> 1, outline |-> 2, keyword |-> 3, text |-> 4,
     global |-> 5, fallback |-> 6]

SourcePriority(source) ==
    IF source \in DOMAIN SOURCE_PRIORITY THEN SOURCE_PRIORITY[source] ELSE 99

\* The style ids of the candidates and the role names of the resolver's
\* arguments, each list in the order Python compares strings.
StyleIdsInOrder == <<"", "Heading1", "Normal">>

RolesInOrder ==
    <<Role("cover_info"), Role("cover_title"), TitleRole(1), TitleRole(2),
      Role("toc_body"), TocBodyRole(1)>>

StyleIdRank(style_id) ==
    CHOOSE i \in 1..Len(StyleIdsInOrder) : StyleIdsInOrder[i] = style_id

RoleRank(role) ==
    CHOOSE i \in 1..Len(RolesInOrder) : RolesInOrder[i] = role

\* _required_field_score
RequiredFieldScore(candidate) == Cardinality(candidate.fields)

\* _candidate_sort_key with the count in front of the first occurrence for
\* toc_body too.
CandidateSortKeySameForToc(role, candidate) ==
    <<SourcePriority(candidate.source), 0, -candidate.count,
      -RequiredFieldScore(candidate), candidate.order,
      StyleIdRank(candidate.style_id)>>

\* _candidate_sort_key: the tuple, with the rank of the style id for the id.
CandidateSortKey(role, candidate) ==
    IF role = Role("toc_body")
    THEN <<SourcePriority(candidate.source),
           IF candidate.toc_level = 0 THEN 99 ELSE candidate.toc_level,
           candidate.order, -candidate.count, -RequiredFieldScore(candidate),
           StyleIdRank(candidate.style_id)>>
    ELSE <<SourcePriority(candidate.source), 0, -candidate.count,
           -RequiredFieldScore(candidate), candidate.order,
           StyleIdRank(candidate.style_id)>>

\* Python's order of two tuples of one length.
TupleLess(a, b) ==
    \E i \in 1..Len(a) :
        /\ a[i] < b[i]
        /\ \A j \in 1..(i - 1) : a[j] = b[j]

\* sorted(candidates, key=...): a stable sort.
SortCandidates(role, candidates) ==
    LET key(i) == CandidateSortKey(role, candidates[i])
        ahead(j, i) == TupleLess(key(j), key(i)) \/ (key(j) = key(i) /\ j < i)
        place(i) == 1 + Cardinality({j \in 1..Len(candidates) : ahead(j, i)})
    IN [k \in 1..Len(candidates) |->
            candidates[CHOOSE i \in 1..Len(candidates) : place(i) = k]]

\* _choose_best_candidate: None (<<>>) without candidates, else the first of
\* the sorted list, in a one-element sequence.
ChooseBestCandidate(role, candidates) ==
    IF candidates = <<>> THEN <<>>
    ELSE <<SortCandidates(role, candidates)[1]>>

\* The loop over the sorted candidates of a role that takes the first one.
FirstFreeAlways(candidates, used_styles) == 1

\* Lines 1560-1573: the index of the first candidate whose style id is empty
\* or not in used_styles, 0 when there is none.
FirstFree(candidates, used_styles) ==
    LET free == {i \in 1..Len(candidates) :
                    \/ candidates[i].style_id = ""
                    \/ candidates[i].style_id \notin DOMAIN used_styles}
    IN IF free = {} THEN 0
       ELSE CHOOSE i \in free : \A j \in free : i <= j

\* Lines 1567-1573: the warnings for the candidates the loop passes over.
SkipWarnings(role, candidates, used_styles, upto) ==
    [i \in 1..upto |->
        [rule |-> "conflict_resolved", role |-> role,
         style_id |-> candidates[i].style_id,
         other |-> used_styles[candidates[i].style_id]]]

\* Lines 1557-1589: the roles of a constrained group, in their order, one
\* after the other; out holds selected and the warnings of log_state.
RECURSIVE ResolveRoles(_, _, _, _, _)
ResolveRoles(roles, sorted_candidates, used_styles, log, out) ==
    IF roles = <<>> THEN out
    ELSE LET role == roles[1]
             candidates == sorted_candidates[role]
             free == FirstFree(candidates, used_styles)
             chosen == IF free = 0 THEN candidates[1] ELSE candidates[free]
             skipped == SkipWarnings(role, candidates, used_styles,
                                     IF free = 0 THEN Len(candidates) ELSE free - 1)
             shared == IF free = 0
                       THEN <<[rule |-> "shared_style", role |-> role,
                               style_id |-> chosen.style_id,
                               other |-> used_styles[chosen.style_id]]>>
                       ELSE <<>>
             style_id == chosen.style_id
             used == IF style_id # "" /\ style_id \notin DOMAIN used_styles
                     THEN [id \in DOMAIN used_styles \cup {style_id} |->
                              IF id = style_id THEN role ELSE used_styles[id]]
                     ELSE used_styles
         IN ResolveRoles(
                Tail(roles), sorted_candidates, used, log,
                [selected |-> [r \in DOMAIN out.selected \cup {role} |->
                                  IF r = role THEN chosen ELSE out.selected[r]],
                 warnings |-> IF log THEN out.warnings \o skipped \o shared
                              ELSE out.warnings])

\* roles.sort(key=lambda item: (best_keys[item], item))
SortRoles(roles, best_keys) ==
    LET ahead(q, r) == \/ TupleLess(best_keys[q], best_keys[r])
                       \/ best_keys[q] = best_keys[r] /\ RoleRank(q) < RoleRank(r)
        place(r) == 1 + Cardinality({q \in roles : ahead(q, r)})
    IN [k \in 1..Cardinality(roles) |-> CHOOSE r \in roles : place(r) = k]

NoUsedStyles == [id \in {} |-> NoRole]

\* _resolve_role_conflicts: role_candidates maps a role to its candidate
\* list, log says whether log_state is given.  The groups do not share
\* used_styles; they are taken in the order of RolesInOrder.
RECURSIVE ResolveGroups(_, _, _, _, _)
ResolveGroups(groups, sorted_candidates, best_keys, log, out) ==
    IF groups = <<>> THEN out
    ELSE LET group == groups[1]
             roles == {r \in DOMAIN sorted_candidates : ResolveRoleGroup(r) = group}
             first == [selected |-> [r \in DOMAIN out.selected \cup roles |->
                                        IF r \in roles THEN sorted_candidates[r][1]
                                        ELSE out.selected[r]],
                       warnings |-> out.warnings]
             next == IF roles = {} THEN out
                     ELSE IF group \in {"", "cover", "toc"} THEN first
                     ELSE ResolveRoles(SortRoles(roles, best_keys),
                                       sorted_candidates, NoUsedStyles, log, out)
         IN ResolveGroups(Tail(groups), sorted_candidates, best_keys, log, next)

\* The groups of _ROLE_GROUP_PATTERNS, and "" for None.
RoleGroups ==
    <<"", "title", "body", "special_title", "cover", "special_body", "toc",
      "caption", "note">>

ResolveRoleConflicts(candidates_of, log) ==
    LET present == {r \in DOMAIN candidates_of : candidates_of[r] # <<>>}
        sorted_candidates == [r \in present |-> SortCandidates(r, candidates_of[r])]
        best_keys == [r \in present |-> CandidateSortKey(r, sorted_candidates[r][1])]
        groups == {ResolveRoleGroup(r) : r \in present}
        group_list == SelectSeq(RoleGroups, LAMBDA g : g \in groups)
    IN ResolveGroups(group_list, sorted_candidates, best_keys, log,
                     [selected |-> [r \in {} |-> NoRole], warnings |-> <<>>])

-----------------------------------------------------------------------------
(* The resolver applied to role candidates of every shape.                 *)

MaxCandidates == 2

NoSelection == [r \in {} |-> NoRole]

\* The candidates of the roles of a group: what decides between two roles is
\* the style id and the key, which the count varies.
GroupCandidates ==
    [style_id : {"", "Heading1", "Normal"}, source : {"stack"}, count : {1, 2},
     order : {1}, fields : {{}}, toc_level : {0}]

\* Two roles of the constrained group "title" with up to MaxCandidates
\* candidates each, or two roles of the unconstrained group "cover" with up to
\* one candidate each.
ResolverArguments ==
    {[r \in {TitleRole(1), TitleRole(2)} |-> IF r = TitleRole(1) THEN a ELSE b] :
        a, b \in {<<>>} \cup SeqsUpTo(GroupCandidates, MaxCandidates)}
    \cup
    {[r \in {Role("cover_title"), Role("cover_info")} |->
         IF r = Role("cover_title") THEN a ELSE b] :
        a, b \in {<<>>} \cup SeqsUpTo(GroupCandidates, 1)}

InitResolve ==
    /\ InitWalk
    /\ paragraphs = <<>>
    /\ fallback = "idle"
    /\ detector = "idle"
    /\ sampler = "idle"
    /\ PartsIdle
    /\ resolver \in [phase : {"arguments"}, role_candidates : ResolverArguments,
                      log_state : BOOLEAN, selected : {NoSelection},
                      warnings : {<<>>}]

\* The call of _resolve_role_conflicts.
CallResolveRoleConflicts ==
    /\ resolver.phase = "arguments"
    /\ LET out == ResolveRoleConflicts(resolver.role_candidates, resolver.log_state)
       IN resolver' = [resolver EXCEPT !.phase = "resolved",
                                       !.selected = out.selected,
                                       !.warnings = out.warnings]
    /\ UNCHANGED <<classifierVars, engineVars, partVars>>

NextResolve == CallResolveRoleConflicts

SpecResolve == InitResolve /\ [][NextResolve]_vars

-----------------------------------------------------------------------------
(* The ranking applied to the candidates of one role.                      *)

RankRoles == {TitleRole(1), Role("toc_body"), TocBodyRole(1)}

RankCandidates ==
    [style_id : {"Heading1", "Normal"}, source : {"explicit", "stack", "run"},
     count : {1, 2}, order : {1, 2}, fields : {{}, {"font_size_pt"}},
     toc_level : {0, 1}]

\* No candidate, one, or two in either order.
InitRank ==
    /\ InitWalk
    /\ paragraphs = <<>>
    /\ fallback = "idle"
    /\ detector = "idle"
    /\ sampler = "idle"
    /\ PartsIdle
    /\ resolver \in [phase : {"arguments"}, role : RankRoles,
                      candidates : {<<>>} \cup {<<a>> : a \in RankCandidates}
                                   \cup (RankCandidates \X RankCandidates),
                      sorted : {<<>>}, best : {<<>>}]

\* The call of _choose_best_candidate, with the sorted list it builds.
CallChooseBestCandidate ==
    /\ resolver.phase = "arguments"
    /\ resolver' = [resolver EXCEPT
                       !.phase = "chosen",
                       !.sorted = SortCandidates(resolver.role, resolver.candidates),
                       !.best = ChooseBestCandidate(resolver.role,
                                                    resolver.candidates)]
    /\ UNCHANGED <<classifierVars, engineVars, partVars>>

NextRank == CallChooseBestCandidate

SpecRank == InitRank /\ [][NextRank]_vars

-----------------------------------------------------------------------------
(* The fallback engine: _apply_fallbacks, _validate_strict and the          *)
(* serialization of the rules (style_rule.py).  A StyleRule is a function  *)
(* from its fields to values; every value is written as a string, and an   *)
(* unset field holds None.                                                 *)

None == "None"

\* style_rule.py, REQUIRED_FIELDS, in its order.
REQUIRED_FIELDS ==
    <<"font_name", "font_size_pt", "bold", "alignment", "line_spacing_rule",
      "line_spacing_value", "line_spacing_unit", "space_before_pt",
      "space_after_pt">>

\* The fields of the dataclass StyleRule but role and missing_fields, which
\* _fill_missing_fields skips.
StyleRuleFields ==
    {"font_name", "font_name_ascii", "font_name_eastAsia", "font_name_hAnsi",
     "font_size_pt", "bold", "alignment", "line_spacing_rule",
     "line_spacing_value", "line_spacing_unit", "space_before_pt",
     "space_after_pt", "space_before_value", "space_before_unit",
     "space_after_value", "space_after_unit", "indent_left_pt",
     "indent_right_pt", "indent_first_line_pt", "indent_hanging_pt"}

FontFields ==
    {"font_name", "font_name_ascii", "font_name_eastAsia", "font_name_hAnsi",
     "font_size_pt", "bold"}

IndentFields ==
    {"indent_left_pt", "indent_right_pt", "indent_first_line_pt",
     "indent_hanging_pt"}

\* StyleRule(role=role, **given): the fields given, every other one None.
StyleRule(given) ==
    [f \in StyleRuleFields |-> IF f \in DOMAIN given THEN given[f] ELSE None]

EmptyStyleRule == [f \in StyleRuleFields |-> None]

BASE_TITLE_ROLE == TitleRole(1)
BASE_BODY_ROLE == BodyRole(1)

\* _default_rule; "SimSun" stands for the font name of the source.
DefaultRule(role) ==
    IF role = BASE_TITLE_ROLE
    THEN StyleRule([font_name |-> "SimSun", font_name_eastAsia |-> "SimSun",
                    font_size_pt |-> "16.0", bold |-> "True",
                    alignment |-> "CENTER",
                    line_spacing_rule |-> "ONE_POINT_FIVE",
                    line_spacing_value |-> "1.5",
                    line_spacing_unit |-> "MULTIPLE",
                    space_before_pt |-> "12.0", space_after_pt |-> "12.0",
                    space_before_value |-> "12.0", space_before_unit |-> "PT",
                    space_after_value |-> "12.0", space_after_unit |-> "PT",
                    indent_left_pt |-> "0.0", indent_right_pt |-> "0.0",
                    indent_first_line_pt |-> "0.0",
                    indent_hanging_pt |-> "0.0"])
    ELSE IF role = BASE_BODY_ROLE
    THEN StyleRule([font_name |-> "SimSun", font_name_eastAsia |-> "SimSun",
                    font_size_pt |-> "12.0", bold |-> "False",
                    alignment |-> "JUSTIFY",
                    line_spacing_rule |-> "ONE_POINT_FIVE",
                    line_spacing_value |-> "1.5",
                    line_spacing_unit |-> "MULTIPLE",
                    space_before_pt |-> "0.0", space_after_pt |-> "0.0",
                    space_before_value |-> "0.0", space_before_unit |-> "PT",
                    space_after_value |-> "0.0", space_after_unit |-> "PT",
                    indent_left_pt |-> "0.0", indent_right_pt |-> "0.0",
                    indent_first_line_pt |-> "0.0",
                    indent_hanging_pt |-> "0.0"])
    ELSE StyleRule([indent_left_pt |-> "0.0", indent_right_pt |-> "0.0",
                    indent_first_line_pt |-> "0.0",
                    indent_hanging_pt |-> "0.0"])

\* A mutation of _fill_missing_fields that writes every field the defaults have.
FillMissingFieldsOverwrites(target, defaults) ==
    [f \in StyleRuleFields |->
        IF defaults[f] # None THEN defaults[f] ELSE target[f]]

\* _fill_missing_fields.
FillMissingFields(target, defaults) ==
    [f \in StyleRuleFields |->
        IF target[f] = None THEN defaults[f] ELSE target[f]]

\* _missing_required_fields: the unset required fields, in the order of
\* REQUIRED_FIELDS.
MissingRequiredFields(rule) ==
    SelectSeq(REQUIRED_FIELDS, LAMBDA f : rule[f] = None)

\* A dict of rules: its keys in insertion order, and the rule of each key.
NoRules == [order |-> <<>>, rule |-> [r \in {} |-> EmptyStyleRule]]

InRules(role, rules) == role \in DOMAIN rules.rule

\* rules[role] = rule.
SetRule(rules, role, rule) ==
    [order |-> IF InRules(role, rules) THEN rules.order
               ELSE Append(rules.order, role),
     rule |-> [r \in DOMAIN rules.rule \cup {role} |->
                  IF r = role THEN rule ELSE rules.rule[r]]]

\* _normalize_required_roles: the roles without repetitions, in their order.
RECURSIVE NormalizeRequiredRoles(_)
NormalizeRequiredRoles(required_roles) ==
    IF required_roles = <<>> THEN <<>>
    ELSE LET n == Len(required_roles)
             normalized == NormalizeRequiredRoles(SubSeq(required_roles, 1, n - 1))
             role == required_roles[n]
         IN IF \E i \in 1..Len(normalized) : normalized[i] = role
            THEN normalized
            ELSE Append(normalized, role)

\* A mutation of _conditional_required_roles that finds no target.
NoConditionalRequiredRoles(rules, required_on_presence_map) == <<>>

\* _conditional_required_roles: the targets whose trigger is in rules, in the
\* order of the map, each once.
RECURSIVE ConditionalRequiredRoles(_, _)
ConditionalRequiredRoles(rules, required_on_presence_map) ==
    IF required_on_presence_map = <<>> THEN <<>>
    ELSE LET n == Len(required_on_presence_map)
             targets == ConditionalRequiredRoles(
                            rules, SubSeq(required_on_presence_map, 1, n - 1))
             pair == required_on_presence_map[n]
         IN IF /\ InRules(pair.trigger, rules)
               /\ ~\E i \in 1..Len(targets) : targets[i] = pair.target
            THEN Append(targets, pair.target)
            ELSE targets

SeqToSet(seq) == {seq[i] : i \in 1..Len(seq)}

\* _fallback_chain: the chain named in the warning.  global_body_rule is
\* <<>> for None, else <<rule>>.
FallbackChain(role, conditional_targets, global_body_rule) ==
    IF role \in conditional_targets THEN "body_L1 -> default_body"
    ELSE IF role.name = "title_L" /\ role # BASE_TITLE_ROLE
    THEN "title_L1 -> default_title"
    ELSE IF role.name = "body_L"
    THEN IF global_body_rule # <<>> THEN "global_body -> default_body"
         ELSE "default_body"
    ELSE IF role = BASE_TITLE_ROLE THEN "default_title"
    ELSE "default(role)"

\* A mutation of _fill_from_fallback that goes to the family's default at once.
FillFromFallbackDefaultsOnly(role, target, rules, conditional_targets, global_body_rule) ==
    IF role.name = "title_L"
    THEN FillMissingFields(target, DefaultRule(BASE_TITLE_ROLE))
    ELSE IF role.name = "body_L" \/ role \in conditional_targets
    THEN FillMissingFields(target, DefaultRule(BASE_BODY_ROLE))
    ELSE FillMissingFields(target, DefaultRule(role))

\* A mutation of _fill_from_fallback that sends body_L1 to the body default
\* without the global body candidate.
FillFromFallbackBaseStraight(role, target, rules, conditional_targets, global_body_rule) ==
    IF role \in conditional_targets
    THEN LET from_base ==
                 IF InRules(BASE_BODY_ROLE, rules) /\ role # BASE_BODY_ROLE
                 THEN FillMissingFields(target, rules.rule[BASE_BODY_ROLE])
                 ELSE target
         IN FillMissingFields(from_base, DefaultRule(BASE_BODY_ROLE))
    ELSE IF role.name = "title_L" /\ role # BASE_TITLE_ROLE
    THEN LET from_base ==
                 IF InRules(BASE_TITLE_ROLE, rules)
                 THEN FillMissingFields(target, rules.rule[BASE_TITLE_ROLE])
                 ELSE target
         IN FillMissingFields(from_base, DefaultRule(BASE_TITLE_ROLE))
    ELSE IF role.name = "body_L" /\ role # BASE_BODY_ROLE
    THEN LET from_global ==
                 IF global_body_rule # <<>>
                 THEN FillMissingFields(target, global_body_rule[1])
                 ELSE target
         IN FillMissingFields(from_global, DefaultRule(BASE_BODY_ROLE))
    ELSE IF role = BASE_TITLE_ROLE
    THEN FillMissingFields(target, DefaultRule(BASE_TITLE_ROLE))
    ELSE IF role = BASE_BODY_ROLE
    THEN FillMissingFields(target, DefaultRule(BASE_BODY_ROLE))
    ELSE FillMissingFields(target, DefaultRule(role))

\* _fill_from_fallback(role, target): the target after the fills.  The
\* parser builds global_body_rule as an object of its own, so it is never
\* the target; rules.get(base) is the target when the role is the base role.
FillFromFallback(role, target, rules, conditional_targets, global_body_rule) ==
    IF role \in conditional_targets
    THEN LET from_base ==
                 IF InRules(BASE_BODY_ROLE, rules) /\ role # BASE_BODY_ROLE
                 THEN FillMissingFields(target, rules.rule[BASE_BODY_ROLE])
                 ELSE target
         IN FillMissingFields(from_base, DefaultRule(BASE_BODY_ROLE))
    ELSE IF role.name = "title_L" /\ role # BASE_TITLE_ROLE
    THEN LET from_base ==
                 IF InRules(BASE_TITLE_ROLE, rules)
                 THEN FillMissingFields(target, rules.rule[BASE_TITLE_ROLE])
                 ELSE target
         IN FillMissingFields(from_base, DefaultRule(BASE_TITLE_ROLE))
    ELSE IF role.name = "body_L"
    THEN LET from_global ==
                 IF global_body_rule # <<>>
                 THEN FillMissingFields(target, global_body_rule[1])
                 ELSE target
         IN FillMissingFields(from_global, DefaultRule(BASE_BODY_ROLE))
    ELSE IF role = BASE_TITLE_ROLE
    THEN FillMissingFields(target, DefaultRule(BASE_TITLE_ROLE))
    ELSE FillMissingFields(target, DefaultRule(role))

\* The loop over the required roles (lines 4378-4395), from the i-th on: a
\* missing role is created empty, a warning names its missing fields, and
\* with allow_fallback the role is filled.
RECURSIVE RequiredLoop(_, _, _, _, _, _, _)
RequiredLoop(rules, warnings, required, i, allow_fallback, conditional_targets, global_body_rule) ==
    IF i > Len(required) THEN [rules |-> rules, warnings |-> warnings]
    ELSE LET role == required[i]
             created == IF InRules(role, rules) THEN rules
                        ELSE SetRule(rules, role, EmptyStyleRule)
             missing == MissingRequiredFields(created.rule[role])
             warned ==
                 IF missing # <<>>
                 THEN Append(warnings,
                         [rule |-> "missing_fields", role |-> role,
                          missing |-> missing,
                          action |-> IF allow_fallback THEN "fallback"
                                     ELSE "missing",
                          via |-> IF allow_fallback
                                  THEN FallbackChain(role, conditional_targets,
                                                     global_body_rule)
                                  ELSE ""])
                 ELSE warnings
             filled ==
                 IF allow_fallback
                 THEN SetRule(created, role,
                         FillFromFallback(role, created.rule[role], created,
                                          conditional_targets, global_body_rule))
                 ELSE created
         IN RequiredLoop(filled, warned, required, i + 1, allow_fallback,
                         conditional_targets, global_body_rule)

\* The loop over rules.items() (lines 4397-4399), from the i-th key on.
RECURSIVE RulesLoop(_, _, _, _)
RulesLoop(rules, i, conditional_targets, global_body_rule) ==
    IF i > Len(rules.order) THEN rules
    ELSE LET role == rules.order[i]
         IN RulesLoop(SetRule(rules, role,
                         FillFromFallback(role, rules.rule[role], rules,
                                          conditional_targets, global_body_rule)),
                      i + 1, conditional_targets, global_body_rule)

\* The targets not among the required roles, appended to them (lines
\* 4325-4327; the source walks a set, the model the order of the map).
RECURSIVE AppendTargets(_, _)
AppendTargets(required, targets) ==
    IF targets = <<>> THEN required
    ELSE LET rest == AppendTargets(required, SubSeq(targets, 1, Len(targets) - 1))
             role == targets[Len(targets)]
         IN IF role \in SeqToSet(rest) THEN rest ELSE Append(rest, role)

\* _apply_fallbacks with a log_state: the rules it returns and the warnings
\* it records.
ApplyFallbacks(rules, allow_fallback, strict, required_roles, required_on_presence_map, global_body_rule) ==
    IF strict THEN [rules |-> rules, warnings |-> <<>>]
    ELSE LET targets == ConditionalRequiredRoles(rules, required_on_presence_map)
             required == AppendTargets(NormalizeRequiredRoles(required_roles),
                                       targets)
             conditional_targets == SeqToSet(targets)
             looped == RequiredLoop(rules, <<>>, required, 1, allow_fallback,
                                    conditional_targets, global_body_rule)
         IN IF allow_fallback
            THEN [rules |-> RulesLoop(looped.rules, 1, conditional_targets,
                                      global_body_rule),
                  warnings |-> looped.warnings]
            ELSE looped

\* A mutation of _validate_strict that checks the presence of the roles only.
ValidateStrictRolesOnly(rules, required_roles, required_on_presence_map) ==
    LET required_all ==
            AppendTargets(NormalizeRequiredRoles(required_roles),
                          ConditionalRequiredRoles(rules, required_on_presence_map))
    IN IF \E i \in 1..Len(required_all) : ~InRules(required_all[i], rules)
       THEN "strict mode missing roles"
       ELSE "ok"

\* _validate_strict: the ValueError it raises, or "ok".
ValidateStrict(rules, required_roles, required_on_presence_map) ==
    LET required_all ==
            AppendTargets(NormalizeRequiredRoles(required_roles),
                          ConditionalRequiredRoles(rules, required_on_presence_map))
    IN IF \E i \in 1..Len(required_all) : ~InRules(required_all[i], rules)
       THEN "strict mode missing roles"
       ELSE IF \E role \in DOMAIN rules.rule :
                  MissingRequiredFields(rules.rule[role]) # <<>>
       THEN "strict mode missing fields"
       ELSE "ok"

\* StyleRule.to_dict: the fields and, when asked for, the missing_fields
\* entry, where <<>> stands for None (an empty list is written as None).
ToDict(rule, include_missing_fields, missing_fields) ==
    [fields |-> rule,
     has_missing_fields |-> include_missing_fields,
     missing_fields |-> IF include_missing_fields THEN missing_fields ELSE <<>>]

\* A mutation of _serialize_roles that never lists the missing fields.
SerializeRolesNoMissingFields(rules, allow_fallback, strict) ==
    [error |-> "",
     output |-> [role \in DOMAIN rules.rule |->
                    ToDict(rules.rule[role], FALSE, <<>>)]]

\* _serialize_roles: the error it raises, or the output.  The values of the
\* model's rules are valid enum members, so rule.validate() passes.
SerializeRoles(rules, allow_fallback, strict) ==
    LET include_missing_fields == (~allow_fallback) /\ (~strict)
    IN IF strict /\ \E role \in DOMAIN rules.rule :
                       MissingRequiredFields(rules.rule[role]) # <<>>
       THEN [error |-> "strict mode forbids missing fields",
             output |-> [role \in {} |-> ToDict(EmptyStyleRule, FALSE, <<>>)]]
       ELSE [error |-> "",
             output |-> [role \in DOMAIN rules.rule |->
                            ToDict(rules.rule[role], include_missing_fields,
                                   MissingRequiredFields(rules.rule[role]))]]

-----------------------------------------------------------------------------
(* The end of TemplateParser._parse_template and export_json, applied to   *)
(* resolved rules of every shape under every setting of the parser.        *)

\* config.py: DEFAULT_REQUIRED_ROLES and DEFAULT_REQUIRED_ON_PRESENCE_MAP.
DEFAULT_REQUIRED_ROLES == <<BASE_TITLE_ROLE, BASE_BODY_ROLE>>

DEFAULT_REQUIRED_ON_PRESENCE_MAP ==
    <<[trigger |-> Role("abstract_title"), target |-> Role("abstract_body")],
      [trigger |-> Role("abstract_en_title"), target |-> Role("abstract_en_body")],
      [trigger |-> Role("reference_title"), target |-> Role("reference_body")]>>

\* The settings tried: the defaults, and a parser that requires title_L2 and,
\* when it is present, body_L2.
RequiredRolesOptions == {DEFAULT_REQUIRED_ROLES, <<TitleRole(2)>>}

RequiredOnPresenceOptions ==
    {DEFAULT_REQUIRED_ON_PRESENCE_MAP,
     <<[trigger |-> TitleRole(2), target |-> BodyRole(2)]>>}

\* The roles of the resolved rules, in the order _parse_template inserts
\* them (sorted by name).
FallbackRolesInOrder ==
    <<Role("abstract_body"), Role("abstract_title"), BodyRole(1), BodyRole(2),
      TitleRole(1), TitleRole(2)>>

\* The font size of the style resolved for a role, and that of the global
\* body candidate.
ResolvedFontSize(role) ==
    CASE role = TitleRole(1) -> "22.0"
      [] role = TitleRole(2) -> "18.0"
      [] role = BodyRole(1) -> "10.5"
      [] role = BodyRole(2) -> "10.0"
      [] role = Role("abstract_title") -> "15.0"
      [] OTHER -> "9.0"

GlobalFontSize == "11.0"

\* A rule as _build_style_rule leaves it: with no field set, with the font
\* size only, or with every required field.
BuiltRule(kind, font_size_pt) ==
    CASE kind = "empty" -> EmptyStyleRule
      [] kind = "partial" -> StyleRule([font_size_pt |-> font_size_pt])
      [] OTHER ->
          StyleRule([font_name |-> "Arial", font_size_pt |-> font_size_pt,
                     bold |-> "False", alignment |-> "LEFT",
                     line_spacing_rule |-> "SINGLE",
                     line_spacing_value |-> "1.0",
                     line_spacing_unit |-> "MULTIPLE",
                     space_before_pt |-> "6.0", space_after_pt |-> "6.0"])

RuleKinds(role) ==
    IF role \in {BASE_TITLE_ROLE, BASE_BODY_ROLE}
    THEN {"empty", "partial", "complete"}
    ELSE IF role = Role("abstract_title") THEN {"empty", "complete"}
    ELSE IF role = Role("abstract_body") THEN {"partial"}
    ELSE {"empty", "partial"}

ResolvedRules ==
    {[order |-> SelectSeq(FallbackRolesInOrder, LAMBDA r : r \in DOMAIN kinds),
      rule |-> [r \in DOMAIN kinds |-> BuiltRule(kinds[r], ResolvedFontSize(r))]] :
        kinds \in {k \in UNION {[present -> {"empty", "partial", "complete"}] :
                                   present \in SUBSET SeqToSet(FallbackRolesInOrder)} :
                      \A r \in DOMAIN k : k[r] \in RuleKinds(r)}}

GlobalBodyRules ==
    {<<>>, <<BuiltRule("partial", GlobalFontSize)>>,
     <<StyleRule([space_before_pt |-> "3.0"])>>}

InitFallback ==
    /\ InitWalk
    /\ paragraphs = <<>>
    /\ resolver = "idle"
    /\ detector = "idle"
    /\ sampler = "idle"
    /\ PartsIdle
    /\ fallback \in [phase : {"resolved"}, strict : BOOLEAN,
                      allow_fallback : BOOLEAN,
                      required_roles : RequiredRolesOptions,
                      required_on_presence_map : RequiredOnPresenceOptions,
                      global_body_rule : GlobalBodyRules,
                      resolved : ResolvedRules, rules : {NoRules},
                      warnings : {<<>>}, error : {""}, output : {<<>>}]

\* The end of _parse_template (lines 673-688): _apply_fallbacks, then
\* _validate_strict in strict mode, whose error leaves the caller no rules.
ParseTemplate ==
    /\ fallback.phase = "resolved"
    /\ LET applied == ApplyFallbacks(fallback.resolved, fallback.allow_fallback,
                                     fallback.strict, fallback.required_roles,
                                     fallback.required_on_presence_map,
                                     fallback.global_body_rule)
           error == IF fallback.strict
                    THEN ValidateStrict(applied.rules, fallback.required_roles,
                                        fallback.required_on_presence_map)
                    ELSE "ok"
       IN IF error = "ok"
          THEN fallback' = [fallback EXCEPT !.phase = "parsed",
                                            !.rules = applied.rules,
                                            !.warnings = applied.warnings]
          ELSE fallback' = [fallback EXCEPT !.phase = "failed",
                                            !.error = error]
    /\ UNCHANGED <<classifierVars, resolver, detector, sampler, partVars>>

\* export_json of the parsed rules: _validate_strict in strict mode, then
\* _serialize_roles.
ExportJson ==
    /\ fallback.phase = "parsed"
    /\ LET error == IF fallback.strict
                    THEN ValidateStrict(fallback.rules, fallback.required_roles,
                                        fallback.required_on_presence_map)
                    ELSE "ok"
           serialized == SerializeRoles(fallback.rules, fallback.allow_fallback,
                                        fallback.strict)
       IN IF error # "ok"
          THEN fallback' = [fallback EXCEPT !.phase = "failed", !.error = error]
          ELSE IF serialized.error # ""
          THEN fallback' = [fallback EXCEPT !.phase = "failed",
                                            !.error = serialized.error]
          ELSE fallback' = [fallback EXCEPT !.phase = "exported",
                                            !.output = serialized.output]
    /\ UNCHANGED <<classifierVars, resolver, detector, sampler, partVars>>

NextFallback == ParseTemplate \/ ExportJson

SpecFallback == InitFallback /\ [][NextFallback]_vars

\* The parsers with fallback enabled whose required_roles may also name a
\* role outside the title_L and body_L families.
InitRequired ==
    /\ InitWalk
    /\ paragraphs = <<>>
    /\ resolver = "idle"
    /\ detector = "idle"
    /\ sampler = "idle"
    /\ PartsIdle
    /\ fallback \in [phase : {"resolved"}, strict : {FALSE},
                      allow_fallback : {TRUE},
                      required_roles : RequiredRolesOptions
                          \cup {<<Role("abstract_title"), BASE_BODY_ROLE>>},
                      required_on_presence_map : RequiredOnPresenceOptions,
                      global_body_rule : GlobalBodyRules,
                      resolved : ResolvedRules, rules : {NoRules},
                      warnings : {<<>>}, error : {""}, output : {<<>>}]

SpecRequired == InitRequired /\ [][NextFallback]_vars

-----------------------------------------------------------------------------
(* The heading-level detector: _detect_heading_levels, the lines of        *)
(* _parse_template around its call, and _match_role.  A style is a record  *)
(* of what the detector reads: name_level is the result of                 *)
(* _parse_heading_level_from_name for its name (0 for None), outline_level *)
(* the outline level of the style definition, explicit_role the entry of   *)
(* the role map for its id or name, count and outline_min the fields of    *)
(* its SampleStats (count 0 when no paragraph uses the style).             *)

\* An outline level that is None.
NoOutline == -1

\* config.py, DEFAULT_MAX_HEADING_LEVEL.
DEFAULT_MAX_HEADING_LEVEL == 6

Min(S) == CHOOSE x \in S : \A y \in S : x <= y
Max(S) == CHOOSE x \in S : \A y \in S : x >= y

\* A mutation of _record that puts every level above the cap into overflow.
RecordLevelAllOverflow(sets, level, explicit, max_heading_level) ==
    IF level <= 0 THEN sets
    ELSE IF level > max_heading_level
    THEN [sets EXCEPT !.overflow = @ \cup {level}]
    ELSE [sets EXCEPT !.detected = @ \cup {level}]

\* _record of _detect_heading_levels: the sets detected and overflow after
\* the call.
RecordLevel(sets, level, explicit, max_heading_level) ==
    IF level <= 0 THEN sets
    ELSE IF level > max_heading_level
    THEN IF explicit THEN [sets EXCEPT !.overflow = @ \cup {level}] ELSE sets
    ELSE [sets EXCEPT !.detected = @ \cup {level}]

\* _record for every level of a set: the calls commute.
RECURSIVE RecordLevels(_, _, _, _)
RecordLevels(sets, levels, explicit, max_heading_level) ==
    IF levels = {} THEN sets
    ELSE LET level == CHOOSE l \in levels : TRUE
         IN RecordLevels(RecordLevel(sets, level, explicit, max_heading_level),
                         levels \ {level}, explicit, max_heading_level)

\* Lines 884-890 and 903-909: the outline levels a style brings, those of
\* its definition and of its samples.
StyleOutlineLevels(style) ==
    {l \in {style.outline_level,
            IF style.count > 0 THEN style.outline_min ELSE NoOutline} :
        l # NoOutline}

\* Lines 848-851 and 865-876: the style's role-map entry is a title role.
ExplicitTitleStyle(style) ==
    style.explicit_role # NoRole /\ style.explicit_role.name = "title_L"

\* Lines 878-896: the ids of the candidate styles.
CandidateStyles(styles) ==
    {id \in DOMAIN styles :
        \/ styles[id].name_level > 0
        \/ StyleOutlineLevels(styles[id]) # {}
        \/ ExplicitTitleStyle(styles[id])}

\* A mutation of the normalization that keeps the raw outline level.
NormalizeOutlineLevelRaw(outline_level, min_outline_level) == outline_level

\* Lines 912 and 487: the level of an outline level on the normalized scale.
NormalizeOutlineLevel(outline_level, min_outline_level) ==
    outline_level - min_outline_level + 1

\* _detect_heading_levels: detected and overflow as sets (the source
\* returns them sorted), and min_outline_level.
DetectHeadingLevels(styles, max_heading_level) ==
    LET explicit_levels == {styles[id].explicit_role.level :
                               id \in {i \in DOMAIN styles : ExplicitTitleStyle(styles[i])}}
        name_levels == {styles[id].name_level : id \in DOMAIN styles}
        with_outline == {id \in CandidateStyles(styles) :
                            StyleOutlineLevels(styles[id]) # {}}
        candidate_outline_levels == {Min(StyleOutlineLevels(styles[id])) :
                                        id \in with_outline}
        min_outline_level == IF candidate_outline_levels = {} THEN NoOutline
                             ELSE Min(candidate_outline_levels)
        by_role == RecordLevels([detected |-> {}, overflow |-> {}],
                                explicit_levels, TRUE, max_heading_level)
        by_name == RecordLevels(by_role, name_levels, FALSE, max_heading_level)
        by_outline ==
            RecordLevels(by_name,
                         {NormalizeOutlineLevel(l, min_outline_level) :
                             l \in candidate_outline_levels},
                         FALSE, max_heading_level)
    IN [detected |-> by_outline.detected, overflow |-> by_outline.overflow,
        min_outline_level |-> min_outline_level]

\* _match_role for a style whose name holds no special or body keyword and
\* whose sampled text matches no special role: the role, NoRole for None.
MatchRole(style, outline_level_max, outline_level_min, max_heading_level) ==
    LET outline_level ==
            IF style.outline_min # NoOutline
               /\ (style.outline_level = NoOutline
                      \/ style.outline_min < style.outline_level)
            THEN style.outline_min ELSE style.outline_level
        normalized_level == NormalizeOutlineLevel(outline_level, outline_level_min)
    IN IF style.explicit_role # NoRole THEN style.explicit_role
       ELSE IF /\ outline_level_max # NoOutline
               /\ outline_level # NoOutline
               /\ outline_level_min # NoOutline
               /\ outline_level <= outline_level_max
               /\ normalized_level > 0
               /\ normalized_level <= max_heading_level
       THEN TitleRole(normalized_level)
       ELSE IF style.name_level > 0 /\ style.name_level <= max_heading_level
       THEN TitleRole(style.name_level)
       ELSE NoRole

\* Lines 517-540 of _parse_template: the roles that get a candidate from
\* _match_role, which are roles of the result (the resolver selects a
\* candidate for every role that has one, and the fallback engine removes
\* no role).
MatchedRoles(styles, outline_level_max, outline_level_min, max_heading_level) ==
    {MatchRole(styles[id], outline_level_max, outline_level_min, max_heading_level) :
        id \in {i \in DOMAIN styles : styles[i].count > 0}} \ {NoRole}

\* The styles of a template: up to three of them, a heading style that the
\* role map may send above the cap, a second heading style, and the body
\* style.
StyleShapes(style_id) ==
    IF style_id = "Heading1"
    THEN [name_level : {0, 1}, outline_level : {NoOutline, 2},
          explicit_role : {NoRole, TitleRole(9)}, count : {0, 1},
          outline_min : {NoOutline, 1}]
    ELSE IF style_id = "Heading3"
    THEN [name_level : {0, 3}, outline_level : {NoOutline, 3},
          explicit_role : {NoRole, TitleRole(1)}, count : {0, 1},
          outline_min : {NoOutline}]
    ELSE [name_level : {0}, outline_level : {NoOutline, 5},
          explicit_role : {NoRole}, count : {1}, outline_min : {NoOutline}]

TemplateStyles ==
    {styles \in UNION {[ids -> UNION {StyleShapes(id) : id \in ids}] :
                          ids \in SUBSET {"Heading1", "Heading3", "Normal"}} :
        \A id \in DOMAIN styles :
            /\ styles[id] \in StyleShapes(id)
            /\ styles[id].count = 0 => styles[id].outline_min = NoOutline}

InitDetect ==
    /\ InitWalk
    /\ paragraphs = <<>>
    /\ resolver = "idle"
    /\ fallback = "idle"
    /\ sampler = "idle"
    /\ PartsIdle
    /\ detector \in [phase : {"styles"}, styles : TemplateStyles,
                      max_heading_level : {MaxHeadingLevel,
                                           DEFAULT_MAX_HEADING_LEVEL},
                      blank_outline_levels : {{}, {0}},
                      detected_heading_levels : {{}},
                      detected_heading_levels_overflow : {{}},
                      outline_level_min : {NoOutline},
                      outline_level_max : {NoOutline},
                      roles : {{}}]

\* Lines 462-497 of _parse_template: _detect_heading_levels, then the
\* outline levels of the paragraphs (_collect_outline_levels: those of the
\* sampled paragraphs and those of blank paragraphs) on the scale of the
\* lower of the two minima.
DetectLevels ==
    /\ detector.phase = "styles"
    /\ LET found == DetectHeadingLevels(detector.styles, detector.max_heading_level)
           outline_levels ==
               {detector.styles[id].outline_min :
                   id \in {i \in DOMAIN detector.styles :
                              /\ detector.styles[i].count > 0
                              /\ detector.styles[i].outline_min # NoOutline}}
               \cup detector.blank_outline_levels
           outline_level_min ==
               IF outline_levels # {}
                  /\ (found.min_outline_level = NoOutline
                         \/ Min(outline_levels) < found.min_outline_level)
               THEN Min(outline_levels) ELSE found.min_outline_level
           normalized ==
               IF outline_levels # {} /\ outline_level_min # NoOutline
               THEN {l \in {NormalizeOutlineLevel(o, outline_level_min) :
                               o \in {x \in outline_levels : x >= outline_level_min}} :
                        l <= detector.max_heading_level}
               ELSE {}
       IN detector' = [detector EXCEPT
              !.phase = "detected",
              !.detected_heading_levels = found.detected \cup normalized,
              !.detected_heading_levels_overflow = found.overflow,
              !.outline_level_min = outline_level_min,
              !.outline_level_max = IF outline_levels = {} THEN NoOutline
                                    ELSE Max(outline_levels)]
    /\ UNCHANGED <<classifierVars, resolver, fallback, sampler, partVars>>

\* Lines 517-540 of _parse_template: _match_role for every style that has
\* samples.
MatchRoles ==
    /\ detector.phase = "detected"
    /\ detector' = [detector EXCEPT
           !.phase = "matched",
           !.roles = MatchedRoles(detector.styles, detector.outline_level_max,
                                  detector.outline_level_min,
                                  detector.max_heading_level)]
    /\ UNCHANGED <<classifierVars, resolver, fallback, sampler, partVars>>

NextDetect == DetectLevels \/ MatchRoles

SpecDetect == InitDetect /\ [][NextDetect]_vars

-----------------------------------------------------------------------------
(* The sampler: _add_sample and _sample_mode over the weight map of one    *)
(* field of one SampleStats.  The map is the sequence of its entries in    *)
(* insertion order, which is the order _sample_mode iterates in; weights   *)
(* are the whole-number floats the callers pass (1.0, or the length of a   *)
(* run's text).  sample_index is the caller's counter, which the samples   *)
(* of the other fields of the same pass advance as well.                   *)

\* The number of _add_sample calls of one pass.
MaxSamples == 4

SampleValues == {"SimSun", "SimHei", "Arial"}

SampleWeights == {1, 2}

\* The position of a value in the weight map, 0 when it is not a key.
RECURSIVE WeightMapPosition(_, _, _)
WeightMapPosition(weight_map, value, i) ==
    IF i > Len(weight_map) THEN 0
    ELSE IF weight_map[i].value = value THEN i
    ELSE WeightMapPosition(weight_map, value, i + 1)

\* _add_sample: the weight map and the index returned.
AddSample(weight_map, value, weight, index) ==
    IF value = None THEN [weight_map |-> weight_map, index |-> index]
    ELSE LET at == WeightMapPosition(weight_map, value, 1)
         IN IF at > 0
            THEN [weight_map |-> [weight_map EXCEPT ![at].weight = @ + weight],
                  index |-> index]
            ELSE [weight_map |-> Append(weight_map,
                                        [value |-> value, weight |-> weight,
                                         first_index |-> index + 1]),
                  index |-> index + 1]

\* The loop of _sample_mode from entry i on.
RECURSIVE SampleModeLoop(_, _, _)
SampleModeLoop(weight_map, i, best) ==
    IF i > Len(weight_map) THEN best.value
    ELSE LET entry == weight_map[i]
         IN IF \/ entry.weight > best.weight
               \/ entry.weight = best.weight /\ entry.first_index < best.first_index
            THEN SampleModeLoop(weight_map, i + 1, entry)
            ELSE SampleModeLoop(weight_map, i + 1, best)

\* A mutation of _sample_mode in which a later entry of equal weight wins.
SampleModeLastTie(weight_map) ==
    IF weight_map = <<>> THEN None
    ELSE LET heaviest == Max({weight_map[i].weight : i \in DOMAIN weight_map})
         IN weight_map[Max({i \in DOMAIN weight_map :
                               weight_map[i].weight = heaviest})].value

\* _sample_mode.
SampleMode(weight_map) ==
    IF weight_map = <<>> THEN None
    ELSE SampleModeLoop(weight_map, 1,
                        [value |-> None, weight |-> -1, first_index |-> 1000000000])

InitSample ==
    /\ InitWalk
    /\ paragraphs = <<>>
    /\ resolver = "idle"
    /\ fallback = "idle"
    /\ detector = "idle"
    /\ PartsIdle
    /\ sampler = [phase |-> "sampling", weight_map |-> <<>>, sample_index |-> 0,
                  calls |-> 0, samples |-> <<>>, mode |-> None]

\* sample_index = _add_sample(stats, field, value, weight, sample_index) for
\* the field; samples keeps the values and weights passed, in order.
AddFieldSample ==
    /\ sampler.phase = "sampling"
    /\ sampler.calls < MaxSamples
    /\ \E value \in SampleValues \cup {None}, weight \in SampleWeights :
           LET added == AddSample(sampler.weight_map, value, weight,
                                  sampler.sample_index)
           IN sampler' = [sampler EXCEPT
                  !.weight_map = added.weight_map,
                  !.sample_index = added.index,
                  !.calls = @ + 1,
                  !.samples = Append(@, [value |-> value, weight |-> weight])]
    /\ UNCHANGED <<classifierVars, resolver, fallback, detector, partVars>>

\* The same call for another field of the stats object with a value that is
\* new there: only the counter moves.
AddOtherFieldSample ==
    /\ sampler.phase = "sampling"
    /\ sampler.calls < MaxSamples
    /\ sampler' = [sampler EXCEPT !.sample_index = @ + 1, !.calls = @ + 1]
    /\ UNCHANGED <<classifierVars, resolver, fallback, detector, partVars>>

\* _build_style_rule reads the field with _sample_mode.
BuildStyleRule ==
    /\ sampler.phase = "sampling"
    /\ sampler' = [sampler EXCEPT !.phase = "built",
                                  !.mode = SampleMode(sampler.weight_map)]
    /\ UNCHANGED <<classifierVars, resolver, fallback, detector, partVars>>

NextSample == AddFieldSample \/ AddOtherFieldSample \/ BuildStyleRule

SpecSample == InitSample /\ [][NextSample]_vars

-----------------------------------------------------------------------------
(* The style reader: resolve_style and _collect_style_chain.  A            *)
(* StyleDefinition is a record of based_on and of the attributes followed  *)
(* here: font_size_pt and alignment for the attributes folded with         *)
(* `is not None`, ascii and ascii_theme for the fonts.  The value a style  *)
(* sets is written as the style's id, so that a resolved value tells which *)
(* style it came from; the document defaults set "docDefaults".            *)

\* A based_on that names no style of the catalog.
UndefinedStyle == "Undefined"

DocDefault == "docDefaults"

\* The font a theme map gives for a token.
ThemeName(token) ==
    IF token = "Target" THEN "theme:Target"
    ELSE IF token = "Parent" THEN "theme:Parent"
    ELSE IF token = "Root" THEN "theme:Root"
    ELSE "theme:docDefaults"

\* _resolve_theme_font; theme_map is the set of tokens the map holds.
ResolveThemeFont(theme_map, token) ==
    IF token = None \/ token \notin theme_map THEN None ELSE ThemeName(token)

\* FontSpec.apply_theme.
ApplyTheme(fonts, theme_map) ==
    IF theme_map = {} THEN fonts
    ELSE [fonts EXCEPT !.ascii =
              IF @ # None THEN @ ELSE ResolveThemeFont(theme_map, fonts.ascii_theme)]

\* _merge_fonts.
MergeFonts(base, override) ==
    [ascii |-> IF override.ascii # None THEN override.ascii ELSE base.ascii,
     ascii_theme |-> IF override.ascii_theme # None THEN override.ascii_theme
                     ELSE base.ascii_theme]

\* A mutation of the loop body that tests visited after appending.
CollectStyleChainStepAppendFirst(styles, walk) ==
    IF walk.current_id = None THEN [walk EXCEPT !.done = TRUE]
    ELSE IF walk.current_id \notin DOMAIN styles THEN [walk EXCEPT !.done = TRUE]
    ELSE IF walk.current_id \in walk.visited
    THEN [walk EXCEPT !.done = TRUE, !.chain = Append(@, walk.current_id)]
    ELSE [walk EXCEPT !.visited = @ \cup {walk.current_id},
                      !.chain = Append(@, walk.current_id),
                      !.current_id = styles[walk.current_id].based_on]

\* One test of the while condition of _collect_style_chain and, where it
\* holds, one run of the loop body; chain holds the ids of the styles
\* appended, target first.
CollectStyleChainStep(styles, walk) ==
    IF walk.current_id = None THEN [walk EXCEPT !.done = TRUE]
    ELSE IF walk.current_id \in walk.visited THEN [walk EXCEPT !.done = TRUE]
    ELSE IF walk.current_id \notin DOMAIN styles
    THEN [walk EXCEPT !.done = TRUE, !.visited = @ \cup {walk.current_id}]
    ELSE [walk EXCEPT !.visited = @ \cup {walk.current_id},
                      !.chain = Append(@, walk.current_id),
                      !.current_id = styles[walk.current_id].based_on]

\* chain.reverse().
Reverse(s) == [i \in 1..Len(s) |-> s[Len(s) + 1 - i]]

\* A mutation of the fold in which a value already set is kept.
FoldStyleFirstWins(resolved, style) ==
    [fonts |-> MergeFonts(style.fonts, resolved.fonts),
     font_size_pt |-> IF resolved.font_size_pt # None THEN resolved.font_size_pt
                      ELSE style.font_size_pt,
     alignment |-> IF resolved.alignment # None THEN resolved.alignment
                   ELSE style.alignment]

\* The body of the loop over the chain in resolve_style.
FoldStyle(resolved, style) ==
    [fonts |-> MergeFonts(resolved.fonts, style.fonts),
     font_size_pt |-> IF style.font_size_pt # None THEN style.font_size_pt
                      ELSE resolved.font_size_pt,
     alignment |-> IF style.alignment # None THEN style.alignment
                   ELSE resolved.alignment]

RECURSIVE FoldChain(_, _, _, _)
FoldChain(styles, chain, i, resolved) ==
    IF i > Len(chain) THEN resolved
    ELSE FoldChain(styles, chain, i + 1, FoldStyle(resolved, styles[chain[i]]))

\* resolve_style after the chain is collected (root first): the
\* ResolvedStyle.
ResolveStyle(styles, defaults, theme_map, chain) ==
    LET folded == FoldChain(styles, chain, 1,
                            [fonts |-> [ascii |-> None, ascii_theme |-> None],
                             font_size_pt |-> defaults.font_size_pt,
                             alignment |-> defaults.alignment])
        resolved_fonts == ApplyTheme(folded.fonts, theme_map)
        default_fonts == ApplyTheme(defaults.fonts, theme_map)
    IN [fonts |-> MergeFonts(default_fonts, resolved_fonts),
        font_size_pt |-> folded.font_size_pt,
        alignment |-> folded.alignment]

\* The StyleDefinitions a style id can have: what it is based on and which
\* attributes it sets.
StyleDefinitions(style_id, based_on, with_fonts) ==
    [based_on : based_on,
     font_size_pt : {None, style_id},
     alignment : {None, style_id},
     fonts : IF with_fonts
             THEN [ascii : {None, style_id}, ascii_theme : {None, style_id}]
             ELSE {[ascii |-> None, ascii_theme |-> None]}]

\* The catalogs: three styles based on each other in any way, cycles and
\* undefined ancestors included, and two styles in a row that set fonts too.
StyleCatalogs ==
    {styles \in [{"Target", "Parent", "Root"} ->
                    UNION {StyleDefinitions(id, {None, "Target", "Parent", "Root",
                                                 UndefinedStyle}, FALSE) :
                              id \in {"Target", "Parent", "Root"}}] :
        \A id \in DOMAIN styles :
            styles[id] \in StyleDefinitions(id, {None, "Target", "Parent", "Root",
                                                 UndefinedStyle}, FALSE)}
    \cup
    {styles \in [{"Target", "Parent"} ->
                    UNION {StyleDefinitions(id, {None, "Parent"}, TRUE) :
                              id \in {"Target", "Parent"}}] :
        /\ styles["Target"] \in StyleDefinitions("Target", {None, "Parent"}, TRUE)
        /\ styles["Parent"] \in StyleDefinitions("Parent", {None}, TRUE)}

StyleDefaultsShapes ==
    {[fonts |-> [ascii |-> None, ascii_theme |-> None],
      font_size_pt |-> None, alignment |-> None],
     [fonts |-> [ascii |-> DocDefault, ascii_theme |-> None],
      font_size_pt |-> DocDefault, alignment |-> DocDefault],
     [fonts |-> [ascii |-> None, ascii_theme |-> DocDefault],
      font_size_pt |-> DocDefault, alignment |-> None]}

ThemeMaps == {{}, {"Target", "Parent", "Root", DocDefault}, {"Parent"}}

InitStyle ==
    /\ InitWalk
    /\ paragraphs = <<>>
    /\ resolver = "idle"
    /\ fallback = "idle"
    /\ detector = "idle"
    /\ sampler = "idle"
    /\ sections = "idle"
    /\ tables = "idle"
    /\ parses = "idle"
    /\ builder = "idle"
    /\ reader \in [phase : {"catalog"}, styles : StyleCatalogs,
                    defaults : StyleDefaultsShapes, theme_map : ThemeMaps,
                    style_id : {"Target", UndefinedStyle},
                    walk : {[visited |-> {}, chain |-> <<>>, current_id |-> None,
                             done |-> FALSE]},
                    chain : {<<>>}, resolved : {None}]
    /\ (\A id \in DOMAIN reader.styles :
            reader.styles[id].fonts = [ascii |-> None, ascii_theme |-> None])
           => (reader.theme_map = {} /\ reader.defaults.fonts.ascii_theme = None)

\* resolve_style up to the call of _collect_style_chain.
ResolveStyleCall ==
    /\ reader.phase = "catalog"
    /\ reader' =
           IF reader.style_id \notin DOMAIN reader.styles
           THEN [reader EXCEPT !.phase = "KeyError"]
           ELSE [reader EXCEPT !.phase = "walking",
                               !.walk.current_id = reader.style_id]
    /\ UNCHANGED <<classifierVars, resolver, engineVars, sections, tables, parses, builder>>

\* One turn of the while loop of _collect_style_chain; when the loop is
\* left the chain is reversed and returned.
CollectStyleChain ==
    /\ reader.phase = "walking"
    /\ LET walk == CollectStyleChainStep(reader.styles, reader.walk)
       IN reader' = [reader EXCEPT
              !.walk = walk,
              !.phase = IF walk.done THEN "collected" ELSE "walking",
              !.chain = IF walk.done THEN Reverse(walk.chain) ELSE <<>>]
    /\ UNCHANGED <<classifierVars, resolver, engineVars, sections, tables, parses, builder>>

\* The rest of resolve_style.
ReturnResolvedStyle ==
    /\ reader.phase = "collected"
    /\ reader' = [reader EXCEPT
           !.phase = "resolved",
           !.resolved = ResolveStyle(reader.styles, reader.defaults,
                                     reader.theme_map, reader.chain)]
    /\ UNCHANGED <<classifierVars, resolver, engineVars, sections, tables, parses, builder>>

NextStyle == ResolveStyleCall \/ CollectStyleChain \/ ReturnResolvedStyle

SpecStyle == InitStyle /\ [][NextStyle]_vars /\ WF_vars(NextStyle)

-----------------------------------------------------------------------------
(* The section rules: the SectionRule dataclass and its validate method.   *)
(* The dataclass has no __post_init__, so constructing a rule runs no      *)
(* check; validate runs where a caller calls it.                           *)

\* SectionRule.validate: "ok", or "ValueError" where it raises.
Validate(rule) ==
    IF rule.key \in {"", " "} THEN "ValueError"
    ELSE IF rule.display_name \in {"", " "} THEN "ValueError"
    ELSE IF rule.title_keywords = <<>> /\ rule.content_keywords = <<>>
    THEN "ValueError"
    ELSE IF rule.body_range = "fixed_paragraphs"
    THEN IF rule.body_paragraph_limit = <<>> \/ rule.body_paragraph_limit[1] <= 0
         THEN "ValueError" ELSE "ok"
    ELSE IF rule.body_paragraph_limit # <<>> THEN "ValueError" ELSE "ok"

\* The arguments a SectionRule is constructed with; a body_paragraph_limit
\* is a sequence of one number, or empty for None.
SectionRuleArguments ==
    [key : {"", " ", "cover"}, display_name : {"", "Cover"},
     title_keywords : {<<>>, <<"Cover">>},
     content_keywords : {<<>>, <<"Major">>},
     body_range : {"until_next_title", "until_blank", "fixed_paragraphs"},
     body_paragraph_limit : {<<>>, <<-1>>, <<0>>, <<1>>, <<2>>}]

InitSections ==
    /\ InitWalk
    /\ paragraphs = <<>>
    /\ resolver = "idle"
    /\ fallback = "idle"
    /\ detector = "idle"
    /\ sampler = "idle"
    /\ reader = "idle"
    /\ tables = "idle"
    /\ parses = "idle"
    /\ builder = "idle"
    /\ sections \in [phase : {"arguments"}, arguments : SectionRuleArguments,
                      made : {<<>>}, parser_rules : {<<>>}]

\* SectionRule(...): the generated __init__ stores the fields; made holds
\* the instance.
ConstructSectionRule ==
    /\ sections.phase = "arguments"
    /\ sections' = [sections EXCEPT !.phase = "constructed",
                                    !.made = <<sections.arguments>>]
    /\ UNCHANGED <<classifierVars, resolver, engineVars, reader, tables, parses, builder>>

\* rule.validate(), as validate_section_rules and the GUI call it.
ValidateSectionRule ==
    /\ sections.phase = "constructed"
    /\ sections' = [sections EXCEPT
           !.phase = IF Validate(sections.made[1]) = "ok" THEN "validated"
                     ELSE "ValueError"]
    /\ UNCHANGED <<classifierVars, resolver, engineVars, reader, tables, parses, builder>>

\* TemplateParser(section_rules=[rule]): the rules are stored as given.
ConstructTemplateParser ==
    /\ sections.phase = "constructed"
    /\ sections' = [sections EXCEPT !.phase = "in_parser",
                                    !.parser_rules = sections.made]
    /\ UNCHANGED <<classifierVars, resolver, engineVars, reader, tables, parses, builder>>

NextSections ==
    ConstructSectionRule \/ ValidateSectionRule \/ ConstructTemplateParser

SpecSections == InitSections /\ [][NextSections]_vars

-----------------------------------------------------------------------------
(* The table-border classifier: _classify_table_border_pattern.  borders   *)
(* is the dict of the flags read for one table; a key may be absent.       *)

OuterKeys == {"top", "bottom", "left", "right"}

InnerKeys == {"insideH", "insideV"}

\* borders.get(key, False).
BorderFlag(borders, key) == key \in DOMAIN borders /\ borders[key]

\* A mutation of the classifier without the branch for inner borders only.
ClassifyTableBorderPatternNoInnerOnly(borders) ==
    LET outer_any == \E key \in OuterKeys : BorderFlag(borders, key)
        inner_any == \E key \in InnerKeys : BorderFlag(borders, key)
        outer_all == \A key \in OuterKeys : BorderFlag(borders, key)
        inner_all == \A key \in InnerKeys : BorderFlag(borders, key)
    IN IF ~outer_any /\ ~inner_any THEN "none"
       ELSE IF outer_all /\ inner_all THEN "grid"
       ELSE IF outer_all /\ ~inner_any THEN "outer_only"
       ELSE "mixed"

\* _classify_table_border_pattern.
ClassifyTableBorderPattern(borders) ==
    LET outer_any == \E key \in OuterKeys : BorderFlag(borders, key)
        inner_any == \E key \in InnerKeys : BorderFlag(borders, key)
        outer_all == \A key \in OuterKeys : BorderFlag(borders, key)
        inner_all == \A key \in InnerKeys : BorderFlag(borders, key)
    IN IF ~outer_any /\ ~inner_any THEN "none"
       ELSE IF outer_all /\ inner_all THEN "grid"
       ELSE IF outer_all /\ ~inner_any THEN "outer_only"
       ELSE IF inner_all /\ ~outer_any THEN "inner_only"
       ELSE "mixed"

\* The dicts of flags: any of the six keys, each with either value.
TableBorders ==
    UNION {[keys -> BOOLEAN] : keys \in SUBSET (OuterKeys \cup InnerKeys)}

InitTables ==
    /\ InitWalk
    /\ paragraphs = <<>>
    /\ resolver = "idle"
    /\ fallback = "idle"
    /\ detector = "idle"
    /\ sampler = "idle"
    /\ reader = "idle"
    /\ sections = "idle"
    /\ parses = "idle"
    /\ builder = "idle"
    /\ tables \in [phase : {"read"}, borders : TableBorders, pattern : {None}]

\* pattern = _classify_table_border_pattern(borders) in the loop over the
\* tables.
ClassifyTable ==
    /\ tables.phase = "read"
    /\ tables' = [tables EXCEPT !.phase = "classified",
                                !.pattern = ClassifyTableBorderPattern(tables.borders)]
    /\ UNCHANGED <<classifierVars, resolver, engineVars, reader, sections, parses, builder>>

NextTables == ClassifyTable

SpecTables == InitTables /\ [][NextTables]_vars

-----------------------------------------------------------------------------
(* The candidate builder of _parse_template (src/template_parser.py, lines  *)
(* 547-625): what becomes of the (role, style id) pairs the classifier      *)
(* recorded.  A resolved style is kept as the id it was resolved from and   *)
(* where its values come from; a call that raises is the empty sequence.    *)

\* The style ids of the catalog read from the styles part.
CatalogStyleIds == {"Body", "Heading"}

\* resolve_style, lines 140-141: an id outside the catalog raises KeyError.
ResolveStyleOrRaise(style_id, styles) ==
    IF style_id \notin styles THEN <<>>
    ELSE << [style_id |-> style_id, built_from |-> "style"] >>

\* _run_resolved_style: the document defaults under the empty style id.
RunResolvedStyle == [style_id |-> "", built_from |-> "defaults"]

\* _append_body_candidate: the guard on the style id, then resolve_style.
AppendBodyCandidate(candidates, styles, role, style_id, info) ==
    IF style_id = "" \/ style_id \notin styles
    THEN IF ~info.stats THEN candidates
         ELSE Append(candidates, [role |-> role, resolved |-> RunResolvedStyle,
                                  source |-> info.source, stats |-> TRUE])
    ELSE Append(candidates,
                [role |-> role,
                 resolved |-> ResolveStyleOrRaise(style_id, styles)[1],
                 source |-> info.source, stats |-> info.stats])

\* Lines 623-625: the global candidates offered to body_L1.
RECURSIVE AppendGlobalCandidates(_, _, _, _)
AppendGlobalCandidates(candidates, styles, global_candidates, i) ==
    IF i > Len(global_candidates) THEN candidates
    ELSE AppendGlobalCandidates(
             AppendBodyCandidate(candidates, styles, BASE_BODY_ROLE,
                                 global_candidates[i].style_id,
                                 global_candidates[i]),
             styles, global_candidates, i + 1)

\* What _collect_body_candidates_by_stack returns: per role the style ids
\* in the order of their first paragraph.  A paragraph without a style id
\* is recorded only where _record is told to allow it, which is never the
\* global body candidate.
RecordedBodyEntries ==
    [role : {BodyRole(1), Role("abstract_body")},
     style_id : {"Body", UndefinedStyle, ""},
     stats : BOOLEAN, source : {"stack"}]

RecordedGlobalEntries ==
    [role : {GLOBAL_BODY_CANDIDATE_ROLE}, style_id : {"Body", UndefinedStyle},
     stats : BOOLEAN, source : {"global"}]

\* A dict has one entry per key.
DistinctKeys(entries) ==
    \A i, j \in 1..Len(entries) :
        (entries[i].role = entries[j].role
         /\ entries[i].style_id = entries[j].style_id) => i = j

RecordedMaps(entries) ==
    {<<>>} \cup {m \in SeqsUpTo(entries, MaxCandidates) : DistinctKeys(m)}

InitBuild ==
    /\ InitWalk
    /\ paragraphs = <<>>
    /\ resolver = "idle"
    /\ fallback = "idle"
    /\ detector = "idle"
    /\ sampler = "idle"
    /\ reader = "idle"
    /\ sections = "idle"
    /\ tables = "idle"
    /\ parses = "idle"
    /\ builder \in [phase : {"global_candidates"}, styles : {CatalogStyleIds},
                     body_role_candidates : RecordedMaps(RecordedBodyEntries),
                     global_candidates : RecordedMaps(RecordedGlobalEntries),
                     i : {1}, global_candidate_entries : {<<>>},
                     role_candidates : {<<>>}]

\* One turn of the loop of lines 599-617 over the global candidates.
ResolveGlobalCandidate ==
    /\ builder.phase = "global_candidates"
    /\ builder' =
           IF builder.i > Len(builder.global_candidates)
           THEN [builder EXCEPT !.phase = "body_candidates", !.i = 1]
           ELSE LET info == builder.global_candidates[builder.i]
                    resolved == ResolveStyleOrRaise(info.style_id, builder.styles)
                IN IF resolved = <<>>
                   THEN [builder EXCEPT !.phase = "KeyError"]
                   ELSE [builder EXCEPT
                            !.i = @ + 1,
                            !.global_candidate_entries =
                                Append(@, [role |-> info.role,
                                           resolved |-> resolved[1],
                                           source |-> info.source,
                                           stats |-> info.stats])]
    /\ UNCHANGED <<classifierVars, resolver, engineVars, reader, sections, tables, parses>>

\* One turn of the loop of lines 619-621 over the recorded body roles.
AppendRecordedCandidate ==
    /\ builder.phase = "body_candidates"
    /\ builder.i <= Len(builder.body_role_candidates)
    /\ LET info == builder.body_role_candidates[builder.i]
       IN builder' = [builder EXCEPT
              !.i = @ + 1,
              !.role_candidates =
                  AppendBodyCandidate(@, builder.styles, info.role,
                                      info.style_id, info)]
    /\ UNCHANGED <<classifierVars, resolver, engineVars, reader, sections, tables, parses>>

\* Lines 623-625, after the loop over the recorded body roles.
OfferGlobalCandidates ==
    /\ builder.phase = "body_candidates"
    /\ builder.i > Len(builder.body_role_candidates)
    /\ builder' = [builder EXCEPT
           !.phase = "built",
           !.role_candidates =
               IF builder.global_candidates # <<>>
                  /\ \A k \in 1..Len(@) : @[k].role # BASE_BODY_ROLE
               THEN AppendGlobalCandidates(@, builder.styles,
                                           builder.global_candidates, 1)
               ELSE @]
    /\ UNCHANGED <<classifierVars, resolver, engineVars, reader, sections, tables, parses>>

NextBuild ==
    ResolveGlobalCandidate \/ AppendRecordedCandidate \/ OfferGlobalCandidates

SpecBuild == InitBuild /\ [][NextBuild]_vars

-----------------------------------------------------------------------------
(* TemplateParser.parse on parser instances (src/template_parser.py, lines  *)
(* 236-311 and 385-401).  An instance keeps what __init__ and parse assign  *)
(* to self; the log directory and the clock that names its files are the    *)
(* only things outside the instances.  A template is what a parse reads     *)
(* from the file: whether it is readable, the section keys whose keywords   *)
(* occur in its text (per owner of the rules, since each template type has  *)
(* its own keywords), and the heading and body levels found in it.          *)

MaxSecond == 1

Seconds == 0..MaxSecond

\* The section rules of the built-in template types (template_types.py,
\* DEFAULT_TEMPLATE_TYPES) and of a caller's own list, by their keys.
TypeSectionRules(owner) ==
    CASE owner = "school_b" ->
             [owner |-> owner, keys |-> <<"original_statement", "acknowledgement">>]
      [] owner = "custom" -> [owner |-> owner, keys |-> <<COVER_SECTION_KEY>>]
      [] OTHER ->
             [owner |-> owner,
              keys |-> <<"original_statement", "authorization_statement",
                         "acknowledgement">>]

\* resolve_template_type: an unknown key resolves to generic.
ResolveTemplateType(key) ==
    IF key \in {"auto", "generic", "school_a", "school_b"} THEN key ELSE "generic"

\* _score_template_type: the number of the type's rules with a match.
ScoreTemplateType(owner, template) ==
    Cardinality(SeqToSet(TypeSectionRules(owner).keys) \cap template.matched[owner])

\* detect_template_type: the best score wins; no text, no match or a tie
\* between the two best gives generic.  The candidates are the types other
\* than auto and generic, sorted by (-score, key).
DetectTemplateType(template) ==
    LET a == ScoreTemplateType("school_a", template)
        b == ScoreTemplateType("school_b", template)
    IN IF ~template.readable THEN "generic"
       ELSE IF a = b \/ (a <= 0 /\ b <= 0) THEN "generic"
       ELSE IF a > b THEN "school_a" ELSE "school_b"

NoTemplate ==
    [name |-> "", readable |-> FALSE,
     matched |-> [owner \in {"generic", "auto", "school_a", "school_b", "custom"} |-> {}],
     levels |-> {}, body_levels |-> {}]

Templates ==
    { [NoTemplate EXCEPT !.name = "plain", !.readable = TRUE,
                         !.levels = {1}, !.body_levels = {1}],
      [NoTemplate EXCEPT !.name = "thesis", !.readable = TRUE,
                         !.matched = [@ EXCEPT !["generic"] = {"acknowledgement"},
                                               !["school_a"] = {"acknowledgement"},
                                               !["school_b"] = {"original_statement",
                                                                "acknowledgement"},
                                               !["custom"] = {COVER_SECTION_KEY}],
                         !.levels = {1, 2, 3}, !.body_levels = {1, 2}],
      [NoTemplate EXCEPT !.name = "tied", !.readable = TRUE,
                         !.matched = [@ EXCEPT !["generic"] = {"original_statement"},
                                               !["school_a"] = {"original_statement"},
                                               !["school_b"] = {"original_statement"}],
                         !.levels = {2}, !.body_levels = {}],
      [NoTemplate EXCEPT !.name = "broken"] }

TemplateNames == {t.name : t \in Templates}

\* The constructor arguments that differ between the instances;
\* section_rules is <<>> for None, else the caller's list.
Configurations ==
    { [template_type |-> "auto", section_rules |-> <<>>, max_heading_level |-> 2],
      [template_type |-> "generic", section_rules |-> <<>>, max_heading_level |-> 2],
      [template_type |-> "school_a", section_rules |-> <<>>, max_heading_level |-> 1],
      [template_type |-> "auto", section_rules |-> <<TypeSectionRules("custom")>>,
       max_heading_level |-> 1] }

CoverDetectionEnabled(section_rules) ==
    \E k \in 1..Len(section_rules.keys) : section_rules.keys[k] = COVER_SECTION_KEY

\* TemplateParser.__init__, and what the caller has seen of the instance:
\* per template the results returned so far, and the templates it has
\* returned a result for more than once.
NewParser(config) ==
    LET rules == IF config.section_rules = <<>> THEN TypeSectionRules("generic")
                 ELSE config.section_rules[1]
    IN [config |-> config,
        template_type |-> config.template_type,
        section_rules |-> rules,
        cover_detection_enabled |-> CoverDetectionEnabled(rules),
        detected_heading_levels |-> <<>>,
        detected_heading_levels_overflow |-> <<>>,
        log_state |-> <<>>,
        pc |-> "idle",
        template |-> NoTemplate,
        roles |-> {},
        outcome |-> "none",
        result |-> <<>>,
        results |-> [name \in TemplateNames |-> {}],
        again |-> {}]

\* parse, lines 285-293: the per-parse fields are reset and a new log state
\* takes the time of the start.
BeginParseOn(inst, template, now) ==
    [inst EXCEPT !.template = template,
                 !.detected_heading_levels = <<>>,
                 !.detected_heading_levels_overflow = <<>>,
                 !.log_state = << [template |-> template.name, start_time |-> now,
                                   error |-> FALSE, detected |-> <<>>] >>,
                 !.roles = {},
                 !.pc = "apply_template_type"]

\* _apply_template_type that keeps a type it detected before.
ApplyTemplateTypeKeepsDetected(inst) ==
    IF inst.config.template_type = "auto" /\ inst.config.section_rules = <<>>
    THEN LET resolved == IF inst.template_type # "auto" THEN inst.template_type
                         ELSE DetectTemplateType(inst.template)
         IN [inst EXCEPT !.template_type = resolved,
                         !.section_rules = TypeSectionRules(resolved),
                         !.cover_detection_enabled =
                             CoverDetectionEnabled(TypeSectionRules(resolved)),
                         !.pc = "parse_template"]
    ELSE LET rules == IF inst.config.section_rules # <<>>
                      THEN inst.config.section_rules[1]
                      ELSE TypeSectionRules(ResolveTemplateType(inst.config.template_type))
         IN [inst EXCEPT !.template_type = inst.config.template_type,
                         !.section_rules = rules,
                         !.cover_detection_enabled = CoverDetectionEnabled(rules),
                         !.pc = "parse_template"]

\* _apply_template_type.
ApplyTemplateType(inst) ==
    IF inst.config.template_type = "auto" /\ inst.config.section_rules = <<>>
    THEN LET resolved == DetectTemplateType(inst.template)
         IN [inst EXCEPT !.template_type = resolved,
                         !.section_rules = TypeSectionRules(resolved),
                         !.cover_detection_enabled =
                             CoverDetectionEnabled(TypeSectionRules(resolved)),
                         !.pc = "parse_template"]
    ELSE LET rules == IF inst.config.section_rules # <<>>
                      THEN inst.config.section_rules[1]
                      ELSE TypeSectionRules(ResolveTemplateType(inst.config.template_type))
         IN [inst EXCEPT !.template_type = inst.config.template_type,
                         !.section_rules = rules,
                         !.cover_detection_enabled = CoverDetectionEnabled(rules),
                         !.pc = "parse_template"]

\* sorted(levels)
RECURSIVE SortedLevels(_)
SortedLevels(levels) ==
    IF levels = {} THEN <<>>
    ELSE <<Min(levels)>> \o SortedLevels(levels \ {Min(levels)})

\* Lines 497-498 with the two lists kept on the class, where every
\* instance reads them.
StoreDetectedLevelsShared(instances, i, detected, overflow) ==
    [j \in DOMAIN instances |->
        [instances[j] EXCEPT !.detected_heading_levels = detected,
                             !.detected_heading_levels_overflow = overflow]]

\* Lines 497-498: self._detected_heading_levels and its overflow list.
StoreDetectedLevels(instances, i, detected, overflow) ==
    [instances EXCEPT ![i].detected_heading_levels = detected,
                      ![i].detected_heading_levels_overflow = overflow]

\* The roles _parse_template returns for the instance's settings: a title
\* per detected level, a body per detected level that has body text, the
\* section titles of the rules in effect that match, and title_L1 and
\* body_L1 from the fallback.
TemplateRoles(inst) ==
    LET template == inst.template
        detected == SeqToSet(inst.detected_heading_levels)
        rules == inst.section_rules
    IN {TitleRole(l) : l \in detected}
       \cup {BodyRole(l) : l \in detected \cap template.body_levels}
       \cup {SectionTitleRole([key |-> rules.keys[k]]) :
                k \in {k \in 1..Len(rules.keys) :
                          rules.keys[k] \in template.matched[rules.owner]}}
       \cup {BASE_TITLE_ROLE, BASE_BODY_ROLE}

\* The try block of parse: _ensure_readable_file raises for a file that
\* cannot be read; else _parse_template stores the detected levels on the
\* instance and returns the roles.
ParseTemplateOn(instances, i) ==
    LET inst == instances[i]
        template == inst.template
        max == inst.config.max_heading_level
    IN IF ~template.readable
       THEN [instances EXCEPT ![i].log_state[1].error = TRUE,
                              ![i].pc = "write_log"]
       ELSE LET stored == StoreDetectedLevels(
                              instances, i,
                              SortedLevels({l \in template.levels : l <= max}),
                              SortedLevels({l \in template.levels : l > max}))
            IN [stored EXCEPT
                   ![i].log_state[1].detected = stored[i].detected_heading_levels,
                   ![i].roles = TemplateRoles(stored[i]),
                   ![i].pc = "write_log"]

\* _build_role_links: the levels that have both a title and a body role,
\* in ascending order.
BuildRoleLinks(roles) ==
    LET levels == {r.level : r \in {r \in roles : r.name = "title_L"
                                                    /\ BodyRole(r.level) \in roles}}
        sorted == SortedLevels(levels)
    IN [k \in 1..Len(sorted) |->
           [title_role |-> TitleRole(sorted[k]), body_role |-> BodyRole(sorted[k]),
            level |-> sorted[k]]]

\* _build_meta
BuildMeta(inst) ==
    [max_heading_level |-> inst.config.max_heading_level,
     detected_heading_levels |-> inst.detected_heading_levels,
     detected_heading_levels_overflow |-> inst.detected_heading_levels_overflow,
     template_type |-> inst.template_type,
     section_rules |-> inst.section_rules.keys,
     cover_detection_enabled |-> inst.cover_detection_enabled]

\* ParseResult(roles=roles, role_links=role_links, meta=meta)
ParseResult(inst) ==
    [roles |-> inst.roles, role_links |-> BuildRoleLinks(inst.roles),
     meta |-> BuildMeta(inst)]

\* config.build_log_path: the file name carries the start time to the second.
BuildLogPath(start_time) == start_time

Instances == {1, 2}

\* repeat: whether an instance is used for more than one parse.
InitParses(ids, repeat) ==
    /\ InitWalk
    /\ paragraphs = <<>>
    /\ resolver = "idle"
    /\ fallback = "idle"
    /\ detector = "idle"
    /\ sampler = "idle"
    /\ reader = "idle"
    /\ sections = "idle"
    /\ tables = "idle"
    /\ builder = "idle"
    /\ \E configs \in [ids -> Configurations] :
           parses = [instances |-> [i \in ids |-> NewParser(configs[i])],
                     logs |-> [s \in Seconds |-> <<>>],
                     now |-> 0,
                     repeat |-> repeat]

\* One parser instance used again and again.
InitReparse == InitParses({1}, TRUE)

\* Two parser instances, one parse each.
InitParallel == InitParses(Instances, FALSE)

\* parse(template_path) is called on an instance that is not parsing.
BeginParse ==
    \E i \in DOMAIN parses.instances, template \in Templates :
        /\ parses.instances[i].pc = "idle"
        /\ parses.repeat \/ parses.instances[i].outcome = "none"
        /\ parses' = [parses EXCEPT
               !.instances[i] = BeginParseOn(@, template, parses.now)]
        /\ UNCHANGED <<classifierVars, resolver, engineVars, reader, sections, tables, builder>>

ApplyTemplateTypeStep ==
    \E i \in DOMAIN parses.instances :
        /\ parses.instances[i].pc = "apply_template_type"
        /\ parses' = [parses EXCEPT !.instances[i] = ApplyTemplateType(@)]
        /\ UNCHANGED <<classifierVars, resolver, engineVars, reader, sections, tables, builder>>

ParseTemplateStep ==
    \E i \in DOMAIN parses.instances :
        /\ parses.instances[i].pc = "parse_template"
        /\ parses' = [parses EXCEPT !.instances = ParseTemplateOn(@, i)]
        /\ UNCHANGED <<classifierVars, resolver, engineVars, reader, sections, tables, builder>>

\* _write_log: the file named after the start time is written, replacing
\* what it held; after a failure parse re-raises.
WriteLog ==
    \E i \in DOMAIN parses.instances :
        LET inst == parses.instances[i]
            log_state == inst.log_state[1]
        IN /\ inst.pc = "write_log"
           /\ parses' = [parses EXCEPT
                  !.logs[BuildLogPath(log_state.start_time)] = <<log_state>>,
                  !.instances[i] =
                      IF log_state.error
                      THEN [@ EXCEPT !.log_state = <<>>, !.pc = "idle",
                                     !.outcome = "raised", !.result = <<>>]
                      ELSE [@ EXCEPT !.pc = "build_result"]]
           /\ UNCHANGED <<classifierVars, resolver, engineVars, reader, sections, tables, builder>>

\* Lines 307-311: the result is built from the roles and the instance.
ReturnParseResult ==
    \E i \in DOMAIN parses.instances :
        LET inst == parses.instances[i]
            result == ParseResult(inst)
        IN /\ inst.pc = "build_result"
           /\ parses' = [parses EXCEPT
                  !.instances[i] =
                      [@ EXCEPT !.log_state = <<>>, !.pc = "idle",
                                !.outcome = "returned", !.result = <<result>>,
                                !.results[inst.template.name] = @ \cup {result},
                                !.again =
                                    IF inst.results[inst.template.name] = {} THEN @
                                    ELSE @ \cup {inst.template.name}]]
           /\ UNCHANGED <<classifierVars, resolver, engineVars, reader, sections, tables, builder>>

\* The clock reaches the next second.
Tick ==
    /\ parses.now < MaxSecond
    /\ parses' = [parses EXCEPT !.now = @ + 1]
    /\ UNCHANGED <<classifierVars, resolver, engineVars, reader, sections, tables, builder>>

NextParses ==
    \/ BeginParse
    \/ ApplyTemplateTypeStep
    \/ ParseTemplateStep
    \/ WriteLog
    \/ ReturnParseResult
    \/ Tick

SpecReparse == InitReparse /\ [][NextParses]_vars

SpecParallel == InitParallel /\ [][NextParses]_vars

-----------------------------------------------------------------------------
(* What the properties below speak about.                                  *)

\* paragraph has been classified from the state before, and the walk goes on.
Classified == paragraph_index > 0 /\ ~walk_done

\* The paragraph just classified has an entry under the role.
RecordedAs(role) ==
    \E e \in role_candidates : e.role = role /\ e.index = paragraph_index

\* Paragraph number index of the walk has an entry under the role.
RecordedAt(role, index) ==
    \E e \in role_candidates : e.role = role /\ e.index = index

\* The entries of the paragraph just classified.
RecordsHere == {e \in role_candidates : e.index = paragraph_index}

\* The table and formula detection claims the paragraph whole.
TakenByObjectDetection(p) ==
    p.in_table \/ (p.has_math /\ ~HasNonNumberText(p))

\* The paragraph triggers a section rule other than that of the open section.
OtherSectionTrigger(s, p) ==
    LET by_title == MatchSectionTitle(p)
        by_content == MatchSectionContent(p)
        fires(rule) == /\ rule # NoRule
                       /\ rule.key # s.active_section.rule.key
                       /\ rule.key = COVER_SECTION_KEY => s.enable_cover_detection
    IN IF by_title # NoRule THEN fires(by_title) ELSE fires(by_content)

\* The paragraph is taken as the document title or its English counterpart.
TakenAsDocumentTitle(s, p) ==
    \/ ~s.document_title_found /\ ~IsBlankParagraph(p) /\ p.document_title_candidate
    \/ /\ s.document_title_found
       /\ ~IsBlankParagraph(p)
       /\ ~s.document_title_en_found
       /\ s.paragraph_index + 1 - s.document_title_index <= 6
       /\ p.document_title_en_candidate

\* A paragraph that reads as a title: it has a title role, it is an abstract
\* title with its text on the same line, it is taken as the document title,
\* or it triggers another section.
TitleLike(s, p) ==
    \/ DetectTitleRole(p) # NoRole
    \/ p.inline_abstract # NoRole
    \/ TakenAsDocumentTitle(s, p)
    \/ OtherSectionTrigger(s, p)

OriginalStatement == RuleByKey("original_statement")
AuthorizationStatement == RuleByKey("authorization_statement")
Signature == RuleByKey("signature")

-----------------------------------------------------------------------------
(* C1: the until_next_title policy.                                        *)

\* The document of test_section_body_until_next_title_allows_blank: the
\* section body holds "content" (paragraph 3), not the next title (paragraph 4).
C1_Document ==
    <<PlainParagraph(<<"yuanchuang", "shengming">>), BlankText, BodyText,
      PlainParagraph(<<"zhixie">>)>>

C1_Example ==
    (walk_done /\ paragraphs = C1_Document)
        => /\ RecordedAt(SectionBodyRole(OriginalStatement), 3)
           /\ ~RecordedAt(SectionBodyRole(OriginalStatement), 4)

\* C1: while a section of the until_next_title policy is open, a blank
\* paragraph leaves it open, a non-blank paragraph that is not title-like is
\* recorded as the body of the section and leaves it open, and a title-like
\* paragraph closes the section and is not recorded as its body; in the
\* document ["yuanchuang shengming", "", "content", "zhixie"] the body of
\* original_statement holds "content" and not "zhixie".  (Paragraphs the
\* table and formula detection takes, and paragraphs without a style id,
\* which _record drops, are left out.)
C1_UntilNextTitleAsStated ==
    /\ C1_Example
    /\ (/\ Classified
        /\ before.active_section # NoSection
        /\ before.active_section.rule.body_range = "until_next_title"
        /\ paragraph.style_id # ""
        /\ ~TakenByObjectDetection(paragraph))
        => LET section == before.active_section
           IN IF IsBlankParagraph(paragraph)
              THEN active_section = section
              ELSE IF TitleLike(before, paragraph)
              THEN active_section # section /\ ~RecordedAs(section.body_role)
              ELSE active_section = section /\ RecordedAs(section.body_role)

-----------------------------------------------------------------------------
(* C2: the until_blank policy.                                             *)

\* The document of test_section_body_until_blank_stops.
C2_Document ==
    <<PlainParagraph(<<"shouquan", "shengming">>), BlankText, BodyText>>

\* The rule's section is open before the paragraph, or the paragraph opens it
\* with a content keyword and is its first body paragraph.
OpenFor(rule, s, p) ==
    \/ s.active_section # NoSection /\ s.active_section.rule.key = rule.key
    \/ MatchSectionTitle(p) = NoRule /\ MatchSectionContent(p) = rule

\* C2: a blank paragraph closes an open section of the until_blank policy
\* and records nothing; a paragraph is recorded as the body of such a section
\* only while the section is open (or by opening it with a content keyword),
\* so that in a document a body paragraph after a blank has the section's
\* title between the blank and itself; in the document
\* ["shouquan shengming", "", "content"] the body of authorization_statement
\* does not hold "content".
C2_UntilBlank ==
    /\ (walk_done /\ paragraphs = C2_Document)
          => ~RecordedAt(SectionBodyRole(AuthorizationStatement), 3)
    /\ (/\ Classified
        /\ before.active_section # NoSection
        /\ before.active_section.rule.body_range = "until_blank"
        /\ IsBlankParagraph(paragraph)
        /\ ~paragraph.has_drawing)
          => active_section = NoSection /\ RecordsHere = {}
    /\ \A i \in 1..Len(SectionRules) :
          (/\ Classified
           /\ SectionRules[i].body_range = "until_blank"
           /\ RecordedAs(SectionBodyRole(SectionRules[i])))
             => OpenFor(SectionRules[i], before, paragraph)
    /\ walk_done
          => \A i, j \in 1..Len(paragraphs) :
                (/\ i < j
                 /\ paragraphs[i] = BlankText
                 /\ RecordedAt(SectionBodyRole(AuthorizationStatement), j))
                   => \E k \in (i + 1)..(j - 1) :
                         RecordedAt(SectionTitleRole(AuthorizationStatement), k)

\* The section of the document has been opened by its title, the blank has
\* been walked over and "content" has been classified.
C2_Witness ==
    /\ walk_done
    /\ paragraphs = C2_Document
    /\ RecordedAt(SectionTitleRole(AuthorizationStatement), 1)
    /\ before.active_section = NoSection
    /\ RecordedAt(GLOBAL_BODY_CANDIDATE_ROLE, 3)

-----------------------------------------------------------------------------
(* C3: the fixed_paragraphs policy.                                        *)

\* The paragraph comes to the section step of the loop: no earlier step
\* takes it whole.
ReachesSectionStep(s, p) ==
    /\ ~IsBlankParagraph(p)
    /\ ~TakenByObjectDetection(p)
    /\ ~(s.toc_mode /\ p.toc_entry)
    /\ ~OtherSectionTrigger(s, p)
    /\ ~TakenAsDocumentTitle(s, p)
    /\ p.inline_abstract = NoRole

\* The non-blank paragraphs after paragraph i up to paragraph j.
NonBlankBetween(i, j) ==
    Cardinality({k \in (i + 1)..j : ~IsBlankParagraph(paragraphs[k])})

\* No paragraph after i up to j is the title of another section.
NoOtherTitleBetween(rule, i, j) ==
    \A k \in (i + 1)..j : MatchSectionTitle(paragraphs[k]) \in {NoRule, rule}

-----------------------------------------------------------------------------
(* The steps of the loop a paragraph passes, read off the paragraph and    *)
(* the state before it.                                                    *)

\* A paragraph without text and without drawing.
Blank(p) == IsBlankParagraph(p) /\ ~p.has_drawing

UntilBlankOpen(s) ==
    s.active_section # NoSection /\ s.active_section.rule.body_range = "until_blank"

\* The iteration ends at the blank handling.
LeavesAtBlankStep(s, p) ==
    /\ Blank(p)
    /\ UntilBlankOpen(s) \/ s.abstract_en_mode \/ s.abstract_mode \/ s.reference_mode

\* The iteration ends before the section triggers.
TakenBeforeSections(s, p) ==
    \/ LeavesAtBlankStep(s, p)
    \/ TakenByObjectDetection(p)
    \/ IsBlankParagraph(p) /\ p.has_drawing
    \/ s.toc_mode /\ ~IsBlankParagraph(p) /\ p.toc_entry

\* The paragraph matches content keywords only, and no section of the same
\* rule is open.
ContentTriggerFires(s, p) ==
    LET rule == MatchSectionContent(p)
    IN /\ ~IsBlankParagraph(p)
       /\ MatchSectionTitle(p) = NoRule
       /\ rule # NoRule
       /\ s.active_section = NoSection \/ rule.key # s.active_section.rule.key
       /\ rule.key = COVER_SECTION_KEY => s.enable_cover_detection

SectionTitleFires(s, p) ==
    /\ ~IsBlankParagraph(p)
    /\ MatchSectionTitle(p) # NoRule
    /\ s.active_section = NoSection
          \/ MatchSectionTitle(p).key # s.active_section.rule.key

\* The open section takes the paragraph as its body.
SectionTakes(s, p) ==
    /\ ~IsBlankParagraph(p)
    /\ s.active_section # NoSection
    /\ \/ s.active_section.rule.body_range \in {"fixed_paragraphs", "until_blank"}
       \/ /\ s.active_section.rule.body_range = "until_next_title"
          /\ DetectTitleRole(p) = NoRole

ExplicitBody(p) ==
    /\ p.explicit_role # NoRole
    /\ ResolveRoleGroup(p.explicit_role) \in {"body", "special_body", "note"}

\* The paragraph comes to the title step of the loop.
ReachesTitleStep(s, p) ==
    /\ ~TakenBeforeSections(s, p)
    /\ ~ContentTriggerFires(s, p)
    /\ ~TakenAsDocumentTitle(s, p)
    /\ IsBlankParagraph(p) \/ p.inline_abstract = NoRole
    /\ ~SectionTitleFires(s, p)
    /\ ~SectionTakes(s, p)
    /\ ~ExplicitBody(p)

\* What a blank paragraph may change in the eyes of C4.
ModesAndStack(s) ==
    <<s.title_stack, s.abstract_mode, s.abstract_en_mode, s.reference_mode,
      s.toc_mode, s.active_section>>

-----------------------------------------------------------------------------
(* C4: blank paragraphs.                                                   *)

\* C4 as stated: a blank paragraph closes an open until_blank section and,
\* with no such section open, exits abstract or abstract-en mode; in every
\* other state it leaves the heading stack, the modes and the open section
\* unchanged.  (Blank: no text, no drawing, no math object, not in a table.)
C4_BlankTransparentAsStated ==
    (Classified /\ Blank(paragraph) /\ ~TakenByObjectDetection(paragraph))
        => IF UntilBlankOpen(before) THEN active_section = NoSection
           ELSE IF before.abstract_en_mode \/ before.abstract_mode
           THEN ~abstract_en_mode /\ ~abstract_mode
           ELSE ModesAndStack(Walk) = ModesAndStack(before)

\* C4, amended: a blank paragraph closes an open until_blank section and
\* changes nothing else; with no such section open it exits abstract or
\* abstract-en mode and changes nothing else; in reference mode it changes
\* nothing; in every other state it leaves the heading stack, the modes and
\* the open section unchanged unless its style or outline level gives it a
\* title role: then it is not recorded, and the stack and the modes change
\* as for a title with text, the open section staying as it is.
C4_BlankParagraph ==
    (Classified /\ Blank(paragraph) /\ ~TakenByObjectDetection(paragraph))
        => IF UntilBlankOpen(before)
           THEN ModesAndStack(Walk)
                   = ModesAndStack([before EXCEPT !.active_section = NoSection])
           ELSE IF before.abstract_en_mode
           THEN ModesAndStack(Walk)
                   = ModesAndStack([before EXCEPT !.abstract_en_mode = FALSE])
           ELSE IF before.abstract_mode
           THEN ModesAndStack(Walk)
                   = ModesAndStack([before EXCEPT !.abstract_mode = FALSE])
           ELSE IF before.reference_mode
                   \/ ExplicitBody(paragraph)
                   \/ DetectTitleRole(paragraph) = NoRole
           THEN ModesAndStack(Walk) = ModesAndStack(before)
           ELSE /\ ModesAndStack(Walk)
                      = ModesAndStack(EnterTitle(before, DetectTitleRole(paragraph)))
                /\ active_section = before.active_section
                /\ RecordsHere = {}

\* A blank paragraph of a heading style has pushed its level on the stack
\* while a section of another policy is open.
C4_Witness ==
    /\ Classified
    /\ Blank(paragraph)
    /\ DetectTitleRole(paragraph) = TitleRole(1)
    /\ before.active_section # NoSection
    /\ before.title_stack = <<>>
    /\ title_stack = <<1>>
    /\ active_section = before.active_section

-----------------------------------------------------------------------------
(* C5: content keywords.                                                   *)

\* The entries of the paragraph that the object detection and the runs add.
ObjectRecords ==
    {e \in RecordsHere :
        e.role.name \in {"figure_body", "formula_inline", "formula_number",
                         "superscript", "subscript"}}

\* C5 as stated: a paragraph that matches content keywords only, with no
\* section open, gets exactly one body (or cover-info) entry, and no section
\* is open after it.
C5_ContentOneShotAsStated ==
    (/\ Classified
     /\ ~TakenBeforeSections(before, paragraph)
     /\ ContentTriggerFires(before, paragraph)
     /\ before.active_section = NoSection
     /\ paragraph.style_id # "")
        => /\ RecordsHere \ ObjectRecords =
                 {[role |-> SectionBodyRole(MatchSectionContent(paragraph)),
                   style_id |-> paragraph.style_id,
                   index |-> paragraph_index, source |-> "stack"]}
           /\ active_section = NoSection

\* C5, amended: a paragraph that matches content keywords only, with no
\* section of the same rule open, gets exactly one body (or cover-info)
\* entry and is the first body paragraph of the rule's section: after it the
\* section is open under the rule's policy, for the limit less one under
\* fixed_paragraphs, and no section is open when that limit is one.
C5_ContentOpensSection ==
    (/\ Classified
     /\ ~TakenBeforeSections(before, paragraph)
     /\ ContentTriggerFires(before, paragraph)
     /\ paragraph.style_id # "")
        => LET rule == MatchSectionContent(paragraph)
           IN /\ RecordsHere \ ObjectRecords =
                    {[role |-> SectionBodyRole(rule),
                      style_id |-> paragraph.style_id,
                      index |-> paragraph_index, source |-> "stack"]}
              /\ active_section =
                    IF rule.body_range = "fixed_paragraphs"
                       /\ rule.body_paragraph_limit <= 1
                    THEN NoSection
                    ELSE [rule |-> rule, body_role |-> SectionBodyRole(rule),
                          remaining |-> IF rule.body_range = "fixed_paragraphs"
                                        THEN rule.body_paragraph_limit - 1
                                        ELSE rule.body_paragraph_limit]

\* The cover line of test_cover_content_keywords_detected has been recorded
\* as cover_info and has opened the cover section.
C5_Witness ==
    /\ Classified
    /\ paragraph = PlainParagraph(<<"zhuanye">>)
    /\ before.active_section = NoSection
    /\ RecordedAs(Role("cover_info"))
    /\ active_section # NoSection
    /\ active_section.rule.key = COVER_SECTION_KEY

-----------------------------------------------------------------------------
(* C6: the heading stack.                                                  *)

\* The level of a title_L role, None counting as 1 (line 2869).
TitleLevel(role) ==
    IF ExtractTitleLevelFromRole(role) = 0 THEN 1 ELSE ExtractTitleLevelFromRole(role)

StrictlyIncreasing(stack) ==
    \A i \in 1..(Len(stack) - 1) : stack[i] < stack[i + 1]

\* C6: a paragraph that comes to the title step with a title role of level L
\* leaves the heading stack as the levels below L of the stack before,
\* bottom first, with L on top; the heading stack is strictly increasing
\* from bottom to top after every paragraph.
C6_HeadingStack ==
    /\ StrictlyIncreasing(title_stack)
    /\ (/\ Classified
        /\ ReachesTitleStep(before, paragraph)
        /\ DetectTitleRole(paragraph).name = "title_L")
          => LET L == TitleLevel(DetectTitleRole(paragraph))
                 below == {i \in 1..Len(before.title_stack) : before.title_stack[i] < L}
             IN /\ Len(title_stack) = Cardinality(below) + 1
                /\ title_stack[Len(title_stack)] = L
                /\ \A i \in 1..(Len(title_stack) - 1) :
                      i \in below /\ title_stack[i] = before.title_stack[i]

\* A level-1 title has popped a stack of two levels.
C6_Witness ==
    /\ Classified
    /\ before.title_stack = <<1, 2>>
    /\ DetectTitleRole(paragraph) = TitleRole(1)
    /\ title_stack = <<1>>

-----------------------------------------------------------------------------
(* C7: the modes.                                                          *)

ActiveModes ==
    {m \in {"abstract", "abstract_en", "reference", "toc"} :
        \/ m = "abstract" /\ abstract_mode
        \/ m = "abstract_en" /\ abstract_en_mode
        \/ m = "reference" /\ reference_mode
        \/ m = "toc" /\ toc_mode}

\* The mode a title role enters.
ModeOfTitle(role) ==
    CASE role.name = "abstract_title" -> "abstract"
      [] role.name = "abstract_en_title" -> "abstract_en"
      [] role.name = "reference_title" -> "reference"
      [] role.name = "toc_title" -> "toc"
      [] OTHER -> ""

\* The title of a mode the paragraph is detected as: an abstract title with
\* its text on the same line, or a title role at the title step.
DetectedModeTitle(s, p) ==
    IF /\ ~TakenBeforeSections(s, p)
       /\ ~ContentTriggerFires(s, p)
       /\ ~TakenAsDocumentTitle(s, p)
       /\ ~IsBlankParagraph(p)
       /\ p.inline_abstract # NoRole
    THEN p.inline_abstract
    ELSE IF ReachesTitleStep(s, p) THEN DetectTitleRole(p)
    ELSE NoRole

\* C7: at most one of the abstract, abstract-en, reference and TOC modes is
\* active at every point of the walk, and after a paragraph detected as the
\* title of one of them that mode is the only active one.
C7_ModesExclusive ==
    /\ Cardinality(ActiveModes) <= 1
    /\ (Classified /\ ModeOfTitle(DetectedModeTitle(before, paragraph)) # "")
          => ActiveModes = {ModeOfTitle(DetectedModeTitle(before, paragraph))}

\* An abstract title has been detected in reference mode and has ended it.
C7_Witness ==
    /\ Classified
    /\ before.reference_mode
    /\ DetectedModeTitle(before, paragraph) = Role("abstract_title")
    /\ abstract_mode
    /\ ~reference_mode

-----------------------------------------------------------------------------
(* C8: the body fallback.                                                  *)

\* The paragraph matches none of the table, figure, formula, section, title,
\* keyword-line, mode and note rules.
MatchesNoRule(s, p) ==
    /\ ~IsBlankParagraph(p)
    /\ ~p.in_table /\ ~p.has_drawing /\ ~p.has_math
    /\ s.active_section = NoSection
    /\ MatchSectionTitle(p) = NoRule
    /\ ~ContentTriggerFires(s, p)
    /\ DetectTitleRole(p) = NoRole
    /\ p.inline_abstract = NoRole
    /\ ~TakenAsDocumentTitle(s, p)
    /\ ~p.keyword_line
    /\ ~s.abstract_mode /\ ~s.abstract_en_mode /\ ~s.reference_mode
    /\ ~(s.toc_mode /\ p.toc_entry)
    /\ ~(p.note /\ s.pending_captions # <<>>)

FallbackRole(s) ==
    IF s.title_stack # <<>> THEN BodyRole(s.title_stack[Len(s.title_stack)])
    ELSE GLOBAL_BODY_CANDIDATE_ROLE

\* C8 as stated: a non-blank paragraph that matches none of the rules is
\* recorded as body_L{k} for the top k of the heading stack, and as the
\* global body candidate when the stack is empty.
C8_BodyFallbackAsStated ==
    (Classified /\ paragraph.style_id # "" /\ MatchesNoRule(before, paragraph))
        => RecordedAs(FallbackRole(before))

\* C8, amended: a non-blank paragraph that matches none of the rules and
\* whose style has no explicit body, special-body or note mapping has one
\* entry apart from those of its runs: body_L{k} (source "stack") for the
\* top k of the heading stack, the global body candidate (source "global")
\* when the stack is empty; with such a mapping its one entry is the mapped
\* role (source "explicit"), whatever the stack.
C8_BodyFallback ==
    (Classified /\ paragraph.style_id # "" /\ MatchesNoRule(before, paragraph))
        => RecordsHere \ ObjectRecords =
              {[role |-> IF ExplicitBody(paragraph) THEN paragraph.explicit_role
                         ELSE FallbackRole(before),
                style_id |-> paragraph.style_id,
                index |-> paragraph_index,
                source |-> IF ExplicitBody(paragraph) THEN "explicit"
                           ELSE IF before.title_stack # <<>> THEN "stack"
                           ELSE "global"]}

\* A plain paragraph under a level-2 heading has been recorded as body_L2.
C8_Witness ==
    /\ Classified
    /\ before.title_stack = <<1, 2>>
    /\ paragraph = BodyText
    /\ RecordedAs(BodyRole(2))

-----------------------------------------------------------------------------
(* C9: the conflict resolver.                                              *)

Resolved == resolver.phase = "resolved"

\* The roles the resolver has candidates for, and those of them whose group
\* is constrained.
PresentRoles ==
    {r \in DOMAIN resolver.role_candidates : resolver.role_candidates[r] # <<>>}

ConstrainedRoles ==
    {r \in PresentRoles : ResolveRoleGroup(r) \notin {"", "cover", "toc"}}

RankedCandidates(role) == SortCandidates(role, resolver.role_candidates[role])

BestKey(role) == CandidateSortKey(role, RankedCandidates(role)[1])

\* q is processed before r: same group, smaller best key, the role name
\* deciding between equal keys.
ProcessedBefore(q, r) ==
    /\ q # r
    /\ ResolveRoleGroup(q) = ResolveRoleGroup(r)
    /\ \/ TupleLess(BestKey(q), BestKey(r))
       \/ BestKey(q) = BestKey(r) /\ RoleRank(q) < RoleRank(r)

\* The styles the roles processed before r have been assigned.
ClaimedBefore(r) ==
    {resolver.selected[q].style_id :
        q \in {q \in ConstrainedRoles : ProcessedBefore(q, r)}} \ {""}

\* The places in r's ranking of the candidates whose style is unclaimed.
Unclaimed(r) ==
    {i \in 1..Len(RankedCandidates(r)) :
        RankedCandidates(r)[i].style_id \notin ClaimedBefore(r)}

SharedStyleWarned(r) ==
    \E i \in 1..Len(resolver.warnings) :
        /\ resolver.warnings[i].rule = "shared_style"
        /\ resolver.warnings[i].role = r
        /\ resolver.warnings[i].style_id = resolver.selected[r].style_id

\* C9: in a constrained group, with the roles taken in ascending order of
\* their best candidate's key, each role is assigned its highest-ranked
\* candidate whose style no earlier role has been assigned; when all its
\* candidates are claimed it is assigned its top-ranked candidate, and a
\* shared-style warning is recorded for it (in the log, when one is kept);
\* two roles of the group have the same style in that case only, and a
\* shared-style warning is recorded in that case only.
C9_GreedyAssignment ==
    Resolved =>
        /\ DOMAIN resolver.selected = PresentRoles
        /\ \A r \in ConstrainedRoles :
              IF Unclaimed(r) # {}
              THEN /\ \E i \in Unclaimed(r) :
                         /\ \A j \in Unclaimed(r) : i <= j
                         /\ resolver.selected[r] = RankedCandidates(r)[i]
                   /\ ~SharedStyleWarned(r)
              ELSE /\ resolver.selected[r] = RankedCandidates(r)[1]
                   /\ resolver.log_state => SharedStyleWarned(r)
        /\ \A q, r \in ConstrainedRoles :
              (/\ ProcessedBefore(q, r)
               /\ resolver.selected[q].style_id # ""
               /\ resolver.selected[q].style_id = resolver.selected[r].style_id)
                 => Unclaimed(r) = {}
        /\ ~resolver.log_state => resolver.warnings = <<>>

\* title_L2 has a candidate of the style title_L1 has been assigned and a
\* lower-ranked one of a free style, and has been assigned the latter.
C9_Witness ==
    /\ Resolved
    /\ ConstrainedRoles = {TitleRole(1), TitleRole(2)}
    /\ ProcessedBefore(TitleRole(1), TitleRole(2))
    /\ resolver.selected[TitleRole(1)].style_id = "Heading1"
    /\ Len(RankedCandidates(TitleRole(2))) = 2
    /\ RankedCandidates(TitleRole(2))[1].style_id = "Heading1"
    /\ resolver.selected[TitleRole(2)] = RankedCandidates(TitleRole(2))[2]
    /\ resolver.selected[TitleRole(2)].style_id = "Normal"

-----------------------------------------------------------------------------
(* C10: the ranking of the candidates of a role.                           *)

Chosen == resolver.phase = "chosen"

\* a is ranked before b, or level with it: source priority, then count
\* descending, then completeness descending, then first occurrence
\* ascending, then style id.
RanksBefore(a, b) ==
    LET pa == SourcePriority(a.source)
        pb == SourcePriority(b.source)
        ca == Cardinality(a.fields)
        cb == Cardinality(b.fields)
    IN \/ pa < pb
       \/ /\ pa = pb
          /\ \/ a.count > b.count
             \/ /\ a.count = b.count
                /\ \/ ca > cb
                   \/ /\ ca = cb
                      /\ \/ a.order < b.order
                         \/ /\ a.order = b.order
                            /\ StyleIdRank(a.style_id) <= StyleIdRank(b.style_id)

\* The ranking of the role toc_body: source priority, then the TOC level of
\* the style (none last), then first occurrence ascending, then count
\* descending, then completeness descending, then style id.
TocRanksBefore(a, b) ==
    LET pa == SourcePriority(a.source)
        pb == SourcePriority(b.source)
        ca == Cardinality(a.fields)
        cb == Cardinality(b.fields)
        la == IF a.toc_level = 0 THEN 99 ELSE a.toc_level
        lb == IF b.toc_level = 0 THEN 99 ELSE b.toc_level
    IN \/ pa < pb
       \/ /\ pa = pb
          /\ \/ la < lb
             \/ /\ la = lb
                /\ \/ a.order < b.order
                   \/ /\ a.order = b.order
                      /\ \/ a.count > b.count
                         \/ /\ a.count = b.count
                            /\ \/ ca > cb
                               \/ /\ ca = cb
                                  /\ StyleIdRank(a.style_id) <= StyleIdRank(b.style_id)

\* explicit < stack < outline < keyword < text < global < fallback
SourcesInOrder ==
    LET sources == <<"explicit", "stack", "outline", "keyword", "text", "global",
                     "fallback">>
    IN \A i \in 1..(Len(sources) - 1) :
          SourcePriority(sources[i]) < SourcePriority(sources[i + 1])

\* The sorted list holds the candidates, each as often as the list given.
SortedIsPermutation ==
    /\ Len(resolver.sorted) = Len(resolver.candidates)
    /\ \A c \in RankCandidates :
          Cardinality({i \in 1..Len(resolver.sorted) : resolver.sorted[i] = c})
             = Cardinality({i \in 1..Len(resolver.candidates) :
                               resolver.candidates[i] = c})

BestIsFirst ==
    resolver.best = IF resolver.candidates = <<>> THEN <<>>
                    ELSE <<resolver.sorted[1]>>

\* C10 as stated: the candidates of every role are ranked by source priority
\* (explicit < stack < outline < keyword < text < global < fallback), then
\* count descending, then completeness descending, then first occurrence
\* ascending, then style id, and the best candidate is the first.
C10_RankingAsStated ==
    Chosen =>
        /\ SourcesInOrder
        /\ SortedIsPermutation
        /\ BestIsFirst
        /\ \A i \in 1..(Len(resolver.sorted) - 1) :
              RanksBefore(resolver.sorted[i], resolver.sorted[i + 1])

\* C10, amended: the candidates of every role but toc_body are ranked by
\* source priority (explicit < stack < outline < keyword < text < global <
\* fallback, any other source last), then count descending, then
\* completeness descending, then first occurrence ascending, then style id;
\* those of toc_body by source priority, then the TOC level of the style
\* (none last), then first occurrence, then count descending, then
\* completeness descending, then style id; the best candidate of a role is
\* the first in its order.
C10_Ranking ==
    Chosen =>
        /\ SourcesInOrder
        /\ SourcePriority("fallback") < SourcePriority("run")
        /\ SortedIsPermutation
        /\ BestIsFirst
        /\ \A i \in 1..(Len(resolver.sorted) - 1) :
              IF resolver.role = Role("toc_body")
              THEN TocRanksBefore(resolver.sorted[i], resolver.sorted[i + 1])
              ELSE RanksBefore(resolver.sorted[i], resolver.sorted[i + 1])

\* Of two toc_body candidates of one source the one with a TOC level is the
\* best, although the other occurs more often.
C10_Witness ==
    /\ Chosen
    /\ resolver.role = Role("toc_body")
    /\ Len(resolver.candidates) = 2
    /\ resolver.candidates[1].source = resolver.candidates[2].source
    /\ resolver.candidates[1].count > resolver.candidates[2].count
    /\ resolver.candidates[1].toc_level = 0
    /\ resolver.candidates[2].toc_level = 1
    /\ resolver.best = <<resolver.candidates[2]>>

-----------------------------------------------------------------------------
(* C11..C17: the fallback engine.                                          *)

\* parse has returned rules; it has raised an error.
HasRules == fallback.phase \in {"parsed", "exported"}
ParseFailed == fallback.phase = "failed"

\* Non-strict mode with fallback enabled, after _apply_fallbacks.
FallbackMode == HasRules /\ ~fallback.strict /\ fallback.allow_fallback

\* The targets of the required-on-presence pairs whose trigger is resolved.
PresentTargets ==
    {fallback.required_on_presence_map[i].target :
        i \in {j \in 1..Len(fallback.required_on_presence_map) :
                  InRules(fallback.required_on_presence_map[j].trigger,
                          fallback.resolved)}}

\* The required roles: configured, or required on presence.
RequiredRoleSet == SeqToSet(fallback.required_roles) \cup PresentTargets

\* The value of a field as the style of the role was resolved: None when
\* the role was not resolved at all.
ResolvedField(role, f) ==
    IF InRules(role, fallback.resolved) THEN fallback.resolved.rule[role][f]
    ELSE None

\* The first of the values that is set, the last when none is.
FirstSet(values) ==
    IF \E i \in 1..Len(values) : values[i] # None
    THEN values[CHOOSE i \in 1..Len(values) :
                    /\ values[i] # None
                    /\ \A j \in 1..(i - 1) : values[j] = None]
    ELSE None

GlobalField(f) ==
    IF fallback.global_body_rule = <<>> THEN None
    ELSE fallback.global_body_rule[1][f]

\* C11: in strict mode the rules parse returns are the resolved rules,
\* with no field filled and no role added, and parse fails with the
\* strict-validation error, returning no rules, whenever a required role
\* (configured, or the target of a pair whose trigger is resolved) is absent
\* or has a required field unset.
C11_StrictMode ==
    (fallback.strict /\ fallback.phase # "resolved") =>
        /\ HasRules => fallback.rules = fallback.resolved
        /\ (\E role \in RequiredRoleSet :
               \/ ~InRules(role, fallback.resolved)
               \/ MissingRequiredFields(fallback.resolved.rule[role]) # <<>>)
           => /\ ParseFailed
              /\ fallback.error \in {"strict mode missing roles",
                                     "strict mode missing fields"}
              /\ fallback.rules = NoRules

\* Strict parse of a template without a body_L1 style has failed.
C11_Witness ==
    /\ fallback.strict
    /\ ParseFailed
    /\ fallback.required_roles = DEFAULT_REQUIRED_ROLES
    /\ InRules(BASE_TITLE_ROLE, fallback.resolved)
    /\ ~InRules(BASE_BODY_ROLE, fallback.resolved)
    /\ fallback.error = "strict mode missing roles"

\* C12: outside strict mode, when the trigger of a required-on-presence pair
\* is resolved and its target is not, the rules have the target; with
\* fallback enabled each field of the target is the one of the resolved
\* body_L1 rule where that has it, and otherwise the one of the body_L1 rule
\* after its own fallback or of the body default.
C12_RequiredOnPresence ==
    (HasRules /\ ~fallback.strict) =>
        \A target \in PresentTargets :
            ~InRules(target, fallback.resolved) =>
                /\ InRules(target, fallback.rules)
                /\ ~fallback.allow_fallback =>
                       fallback.rules.rule[target] = EmptyStyleRule
                /\ fallback.allow_fallback =>
                       \A f \in StyleRuleFields :
                           IF ResolvedField(BASE_BODY_ROLE, f) # None
                           THEN fallback.rules.rule[target][f]
                                    = ResolvedField(BASE_BODY_ROLE, f)
                           ELSE \/ /\ InRules(BASE_BODY_ROLE, fallback.rules)
                                   /\ fallback.rules.rule[target][f]
                                          = fallback.rules.rule[BASE_BODY_ROLE][f]
                                \/ fallback.rules.rule[target][f]
                                       = DefaultRule(BASE_BODY_ROLE)[f]

\* An abstract title without abstract body: abstract_body has the font size
\* of the resolved body_L1.
C12_Witness ==
    /\ FallbackMode
    /\ fallback.required_on_presence_map = DEFAULT_REQUIRED_ON_PRESENCE_MAP
    /\ InRules(Role("abstract_title"), fallback.resolved)
    /\ ~InRules(Role("abstract_body"), fallback.resolved)
    /\ ResolvedField(BASE_BODY_ROLE, "font_size_pt") = ResolvedFontSize(BASE_BODY_ROLE)
    /\ InRules(Role("abstract_body"), fallback.rules)
    /\ fallback.rules.rule[Role("abstract_body")]["font_size_pt"]
           = ResolvedFontSize(BASE_BODY_ROLE)
    /\ fallback.rules.rule[Role("abstract_body")]["alignment"] = "JUSTIFY"

\* The chain of the title levels above the first, and of the body levels.
TitleChain(role, f) ==
    FirstSet(<<ResolvedField(role, f), ResolvedField(BASE_TITLE_ROLE, f),
               DefaultRule(BASE_TITLE_ROLE)[f]>>)

BodyChain(role, f) ==
    FirstSet(<<ResolvedField(role, f), GlobalField(f),
               DefaultRule(BASE_BODY_ROLE)[f]>>)

UpperTitleRoles == {role \in DOMAIN fallback.rules.rule :
                       role.name = "title_L" /\ role.level > 1}

BodyLevelRoles == {role \in DOMAIN fallback.rules.rule : role.name = "body_L"}

\* C13 as stated: with fallback enabled every title_L{k}, k > 1, follows the
\* chain title_L1, title default, and every body_L{k} the chain global body
\* candidate, body default.
C13_FamilyChainsAsStated ==
    FallbackMode =>
        /\ \A role \in UpperTitleRoles : \A f \in StyleRuleFields :
               fallback.rules.rule[role][f] = TitleChain(role, f)
        /\ \A role \in BodyLevelRoles : \A f \in StyleRuleFields :
               fallback.rules.rule[role][f] = BodyChain(role, f)

\* C13: with fallback enabled a title_L{k}, k > 1, or body_L{k} that is not
\* the target of a required-on-presence pair whose trigger is resolved
\* follows the chain of its family (title_L1, title default; global body
\* candidate, body default); one that is such a target takes each unset
\* field from the resolved body_L1 where that has it, and otherwise from
\* body_L1 after its own fallback or from the body default.
C13_FamilyChains ==
    FallbackMode =>
        /\ \A role \in UpperTitleRoles \ PresentTargets : \A f \in StyleRuleFields :
               fallback.rules.rule[role][f] = TitleChain(role, f)
        /\ \A role \in BodyLevelRoles \ PresentTargets : \A f \in StyleRuleFields :
               fallback.rules.rule[role][f] = BodyChain(role, f)
        /\ \A role \in (UpperTitleRoles \cup BodyLevelRoles) \cap PresentTargets :
               \A f \in StyleRuleFields :
                   \/ fallback.rules.rule[role][f]
                          = FirstSet(<<ResolvedField(role, f),
                                       ResolvedField(BASE_BODY_ROLE, f),
                                       DefaultRule(BASE_BODY_ROLE)[f]>>)
                   \/ /\ ResolvedField(role, f) = None
                      /\ ResolvedField(BASE_BODY_ROLE, f) = None
                      /\ InRules(BASE_BODY_ROLE, fallback.rules)
                      /\ fallback.rules.rule[role][f]
                             = fallback.rules.rule[BASE_BODY_ROLE][f]

\* title_L2 has taken its font size from title_L1 and its alignment from
\* the title default; body_L2 its font size from the global body candidate.
C13_Witness ==
    /\ FallbackMode
    /\ PresentTargets = {}
    /\ InRules(TitleRole(2), fallback.resolved)
    /\ ResolvedField(TitleRole(2), "font_size_pt") = None
    /\ fallback.rules.rule[TitleRole(2)]["font_size_pt"]
           = ResolvedFontSize(BASE_TITLE_ROLE)
    /\ fallback.rules.rule[TitleRole(2)]["alignment"] = "CENTER"
    /\ InRules(BodyRole(2), fallback.resolved)
    /\ ResolvedField(BodyRole(2), "font_size_pt") = None
    /\ fallback.rules.rule[BodyRole(2)]["font_size_pt"] = GlobalFontSize
    /\ fallback.rules.rule[BodyRole(2)]["alignment"] = "JUSTIFY"

\* C14 as stated: the base roles take every unset field from their
\* hard-coded default.
C14_BaseRolesAsStated ==
    FallbackMode =>
        /\ InRules(BASE_TITLE_ROLE, fallback.rules) =>
               \A f \in StyleRuleFields :
                   fallback.rules.rule[BASE_TITLE_ROLE][f]
                       = FirstSet(<<ResolvedField(BASE_TITLE_ROLE, f),
                                    DefaultRule(BASE_TITLE_ROLE)[f]>>)
        /\ InRules(BASE_BODY_ROLE, fallback.rules) =>
               \A f \in StyleRuleFields :
                   fallback.rules.rule[BASE_BODY_ROLE][f]
                       = FirstSet(<<ResolvedField(BASE_BODY_ROLE, f),
                                    DefaultRule(BASE_BODY_ROLE)[f]>>)

\* C14: with fallback enabled, and the role not the target of a
\* required-on-presence pair whose trigger is resolved, title_L1 takes every
\* unset field from the title default, and body_L1 takes it from the global
\* body candidate when there is one and it has the field, and otherwise from
\* the body default.
C14_BaseRoles ==
    FallbackMode =>
        /\ (InRules(BASE_TITLE_ROLE, fallback.rules)
               /\ BASE_TITLE_ROLE \notin PresentTargets) =>
               \A f \in StyleRuleFields :
                   fallback.rules.rule[BASE_TITLE_ROLE][f]
                       = FirstSet(<<ResolvedField(BASE_TITLE_ROLE, f),
                                    DefaultRule(BASE_TITLE_ROLE)[f]>>)
        /\ (InRules(BASE_BODY_ROLE, fallback.rules)
               /\ BASE_BODY_ROLE \notin PresentTargets) =>
               \A f \in StyleRuleFields :
                   fallback.rules.rule[BASE_BODY_ROLE][f]
                       = BodyChain(BASE_BODY_ROLE, f)

\* body_L1 was resolved without a font size and has the one of the global
\* body candidate; what the candidate lacks is the body default's, and
\* title_L1, not resolved at all, is the title default.
C14_Witness ==
    /\ FallbackMode
    /\ fallback.global_body_rule # <<>>
    /\ InRules(BASE_BODY_ROLE, fallback.resolved)
    /\ ResolvedField(BASE_BODY_ROLE, "font_size_pt") = None
    /\ fallback.rules.rule[BASE_BODY_ROLE]["font_size_pt"] = GlobalFontSize
    /\ fallback.rules.rule[BASE_BODY_ROLE]["alignment"] = "JUSTIFY"
    /\ ~InRules(BASE_TITLE_ROLE, fallback.resolved)
    /\ InRules(BASE_TITLE_ROLE, fallback.rules)
    /\ fallback.rules.rule[BASE_TITLE_ROLE] = DefaultRule(BASE_TITLE_ROLE)

\* The roles outside the title_L, body_L and required-on-presence families.
OtherRoles ==
    {role \in DOMAIN fallback.rules.rule :
        /\ role.name \notin {"title_L", "body_L"}
        /\ role \notin PresentTargets}

\* C15 as stated: with fallback enabled, a role that is neither title_L*,
\* body_L* nor a required-on-presence target has its unset spacing
\* before and after and its unset indentation filled with zero, and its
\* unset font fields left unset.
C15_OtherRolesAsStated ==
    FallbackMode =>
        \A role \in OtherRoles : \A f \in StyleRuleFields :
            ResolvedField(role, f) = None =>
                /\ f \in IndentFields => fallback.rules.rule[role][f] = "0.0"
                /\ f \in {"space_before_pt", "space_after_pt"} =>
                       fallback.rules.rule[role][f] = "0.0"
                /\ f \in FontFields => fallback.rules.rule[role][f] = None

\* What the code does for such a role: zero indentation, and every other
\* unset field left unset.
C15_OtherRolesIndentOnly ==
    FallbackMode =>
        \A role \in OtherRoles : \A f \in StyleRuleFields :
            ResolvedField(role, f) = None =>
                fallback.rules.rule[role][f]
                    = IF f \in IndentFields THEN "0.0" ELSE None

\* C16: outside strict mode with fallback disabled, every field of every
\* rule is as it was resolved (None where no source supplied it; a required
\* role that was not resolved has no field set), and the serialized role
\* lists in missing_fields exactly the required fields that are None.
C16_MissingFields ==
    (~fallback.strict /\ ~fallback.allow_fallback) =>
        /\ HasRules =>
               /\ DOMAIN fallback.rules.rule
                      = DOMAIN fallback.resolved.rule \cup RequiredRoleSet
               /\ \A role \in DOMAIN fallback.rules.rule : \A f \in StyleRuleFields :
                      fallback.rules.rule[role][f] = ResolvedField(role, f)
        /\ fallback.phase = "exported" =>
               /\ DOMAIN fallback.output = DOMAIN fallback.rules.rule
               /\ \A role \in DOMAIN fallback.output :
                      /\ fallback.output[role].fields = fallback.rules.rule[role]
                      /\ fallback.output[role].has_missing_fields
                      /\ fallback.output[role].missing_fields
                             = SelectSeq(REQUIRED_FIELDS,
                                         LAMBDA f : ResolvedField(role, f) = None)
        /\ fallback.phase # "failed"

\* body_L1 was resolved with a font size only: the eight other required
\* fields are None and listed.
C16_Witness ==
    /\ ~fallback.strict
    /\ ~fallback.allow_fallback
    /\ fallback.phase = "exported"
    /\ ResolvedField(BASE_BODY_ROLE, "font_size_pt") # None
    /\ ResolvedField(BASE_BODY_ROLE, "font_name") = None
    /\ fallback.output[BASE_BODY_ROLE].fields["font_name"] = None
    /\ fallback.output[BASE_BODY_ROLE].missing_fields
           = <<"font_name", "bold", "alignment", "line_spacing_rule",
               "line_spacing_value", "line_spacing_unit", "space_before_pt",
               "space_after_pt">>

\* C17: a field that was set when the rules were resolved has the same
\* value in the rules parse returns.
C17_SetFieldsKept ==
    HasRules =>
        \A role \in DOMAIN fallback.resolved.rule :
            /\ InRules(role, fallback.rules)
            /\ \A f \in StyleRuleFields :
                   ResolvedField(role, f) # None =>
                       fallback.rules.rule[role][f] = ResolvedField(role, f)

\* Fallback has filled the alignment of title_L2 from the title default and
\* kept the font size it had, which title_L1 has too, with another value.
C17_Witness ==
    /\ FallbackMode
    /\ ResolvedField(TitleRole(2), "font_size_pt") = ResolvedFontSize(TitleRole(2))
    /\ ResolvedField(BASE_TITLE_ROLE, "font_size_pt")
           = ResolvedFontSize(BASE_TITLE_ROLE)
    /\ ResolvedField(TitleRole(2), "alignment") = None
    /\ fallback.rules.rule[TitleRole(2)]["alignment"] = "CENTER"
    /\ fallback.rules.rule[TitleRole(2)]["font_size_pt"]
           = ResolvedFontSize(TitleRole(2))

-----------------------------------------------------------------------------
(* C18, C19: the heading-level detector.                                   *)

LevelsDetected == detector.phase \in {"detected", "matched"}

\* The styles the role map sends to a title level above the cap.
OverflowStyles ==
    {id \in DOMAIN detector.styles :
        /\ ExplicitTitleStyle(detector.styles[id])
        /\ detector.styles[id].explicit_role.level > detector.max_heading_level}

\* What the two lists hold whatever the roles are: the explicit levels above
\* the cap are in the overflow list and nowhere else, and no other level
\* above the cap is in either list.
OverflowLists ==
    /\ detector.detected_heading_levels_overflow
           = {detector.styles[id].explicit_role.level : id \in OverflowStyles}
    /\ \A level \in detector.detected_heading_levels :
           level >= 1 /\ level <= detector.max_heading_level

\* C18 as stated: of every style the role map sends to title_L{k} with k
\* above the cap, k is in the overflow list and not in the detected list,
\* and title_L{k} is among the roles; a level above the cap that no explicit
\* entry names is in neither list.
C18_OverflowAsStated ==
    /\ LevelsDetected => OverflowLists
    /\ detector.phase = "matched" =>
           \A id \in OverflowStyles :
               detector.styles[id].explicit_role \in detector.roles

\* C18: the lists are as stated, and title_L{k} is among the roles when a
\* paragraph with text uses the style, and only then when no other style is
\* mapped to it.
C18_Overflow ==
    /\ LevelsDetected => OverflowLists
    /\ detector.phase = "matched" =>
           \A id \in OverflowStyles :
               detector.styles[id].explicit_role \in detector.roles
                   <=> \E other \in OverflowStyles :
                          /\ detector.styles[other].explicit_role
                                 = detector.styles[id].explicit_role
                          /\ detector.styles[other].count > 0

\* Heading1 is mapped to title_L9 under the default cap and used by a
\* paragraph; the name of Heading3 gives level 3 above a cap of less.
C18_Witness ==
    /\ detector.phase = "matched"
    /\ "Heading1" \in OverflowStyles
    /\ detector.styles["Heading1"].count > 0
    /\ detector.max_heading_level = DEFAULT_MAX_HEADING_LEVEL
    /\ detector.detected_heading_levels_overflow = {9}
    /\ 9 \notin detector.detected_heading_levels
    /\ TitleRole(9) \in detector.roles

\* The outline level a style brings to the detector, and the least of them.
OutlineOf(id) == Min(StyleOutlineLevels(detector.styles[id]))

StylesWithOutline ==
    {id \in DOMAIN detector.styles : StyleOutlineLevels(detector.styles[id]) # {}}

MinObserved == Min({OutlineOf(id) : id \in StylesWithOutline})

\* The outline levels set on paragraphs themselves.
ParagraphOutlineLevels ==
    {detector.styles[id].outline_min :
        id \in {i \in DOMAIN detector.styles :
                   /\ detector.styles[i].count > 0
                   /\ detector.styles[i].outline_min # NoOutline}}
    \cup detector.blank_outline_levels

\* C19: the outline level of every style is detected as its distance from
\* the least outline level of the styles plus one, where that is within the
\* cap, so the least one is detected as level 1; every detected level is such
\* a level, the level of an explicit entry or of a style name, or the level
\* of a paragraph's own outline level on the same kind of scale; styles with
\* outline levels 2, 3 and 5 and nothing else to go by give 1, 2 and 4.
C19_OutlineNormalization ==
    LevelsDetected =>
        /\ \A id \in StylesWithOutline :
               (OutlineOf(id) - MinObserved + 1 <= detector.max_heading_level)
                   => (OutlineOf(id) - MinObserved + 1)
                          \in detector.detected_heading_levels
        /\ (StylesWithOutline # {} /\ detector.max_heading_level >= 1)
               => 1 \in detector.detected_heading_levels
        /\ \A level \in detector.detected_heading_levels :
               \/ \E id \in StylesWithOutline :
                      level = OutlineOf(id) - MinObserved + 1
               \/ \E id \in DOMAIN detector.styles :
                      \/ level = detector.styles[id].name_level
                      \/ /\ ExplicitTitleStyle(detector.styles[id])
                         /\ level = detector.styles[id].explicit_role.level
               \/ \E o \in ParagraphOutlineLevels :
                      level = o - detector.outline_level_min + 1
        /\ ParagraphOutlineLevels = {} =>
               detector.outline_level_min
                   = IF StylesWithOutline = {} THEN NoOutline ELSE MinObserved
        /\ (/\ {OutlineOf(id) : id \in StylesWithOutline} = {2, 3, 5}
            /\ ParagraphOutlineLevels = {}
            /\ \A id \in DOMAIN detector.styles :
                   /\ detector.styles[id].name_level = 0
                   /\ detector.styles[id].explicit_role = NoRole
            /\ detector.max_heading_level >= 4)
               => detector.detected_heading_levels = {1, 2, 4}

\* Three styles with outline levels 2, 3 and 5 under the default cap.
C19_Witness ==
    /\ LevelsDetected
    /\ DOMAIN detector.styles = {"Heading1", "Heading3", "Normal"}
    /\ {OutlineOf(id) : id \in StylesWithOutline} = {2, 3, 5}
    /\ ParagraphOutlineLevels = {}
    /\ \A id \in DOMAIN detector.styles :
           /\ detector.styles[id].name_level = 0
           /\ detector.styles[id].explicit_role = NoRole
    /\ detector.max_heading_level = DEFAULT_MAX_HEADING_LEVEL
    /\ detector.detected_heading_levels = {1, 2, 4}

-----------------------------------------------------------------------------
(* C20: the sampler.                                                       *)

\* The weight the samples passed so far give a value.
RECURSIVE AccumulatedWeight(_, _)
AccumulatedWeight(samples, value) ==
    IF samples = <<>> THEN 0
    ELSE (IF Head(samples).value = value THEN Head(samples).weight ELSE 0)
         + AccumulatedWeight(Tail(samples), value)

SeenValues == {sampler.samples[i].value : i \in DOMAIN sampler.samples} \ {None}

\* The place of the first sample with the value.
FirstSeen(value) ==
    Min({i \in DOMAIN sampler.samples : sampler.samples[i].value = value})

\* C20: the value selected for a field is one of the values sampled, no
\* value has a greater accumulated weight, and every other value of the
\* same accumulated weight was first seen later; with no value sampled
\* nothing is selected.
C20_WeightedMode ==
    sampler.phase = "built" =>
        IF SeenValues = {} THEN sampler.mode = None
        ELSE /\ sampler.mode \in SeenValues
             /\ \A value \in SeenValues \ {sampler.mode} :
                    \/ AccumulatedWeight(sampler.samples, value)
                           < AccumulatedWeight(sampler.samples, sampler.mode)
                    \/ /\ AccumulatedWeight(sampler.samples, value)
                              = AccumulatedWeight(sampler.samples, sampler.mode)
                       /\ FirstSeen(sampler.mode) < FirstSeen(value)

\* Two values end with the same greatest weight, the one selected having
\* been overtaken in between, and a third value weighs less.
C20_Witness ==
    /\ sampler.phase = "built"
    /\ Cardinality(SeenValues) = 3
    /\ \E value \in SeenValues \ {sampler.mode} :
           /\ AccumulatedWeight(sampler.samples, value)
                  = AccumulatedWeight(sampler.samples, sampler.mode)
           /\ FirstSeen(sampler.mode) < FirstSeen(value)
           /\ sampler.samples[Len(sampler.samples)].value = sampler.mode
    /\ \E value \in SeenValues :
           AccumulatedWeight(sampler.samples, value)
               < AccumulatedWeight(sampler.samples, sampler.mode)

-----------------------------------------------------------------------------
(* C23, C24: the style reader.                                             *)

\* The n-th style id on the based_on path from the requested style, None
\* past a style that is not defined or is based on nothing.
RECURSIVE Ancestor(_)
Ancestor(n) ==
    IF n = 0 THEN reader.style_id
    ELSE LET below == Ancestor(n - 1)
         IN IF below \in DOMAIN reader.styles
            THEN reader.styles[below].based_on ELSE None

\* Where the path first names no style, an undefined one, or one it named
\* before.
PathEnds(n) ==
    \/ Ancestor(n) = None
    \/ Ancestor(n) \notin DOMAIN reader.styles
    \/ \E m \in 0..(n - 1) : Ancestor(m) = Ancestor(n)

WalkEnd == Min({n \in 0..(Cardinality(DOMAIN reader.styles) + 1) : PathEnds(n)})

ChainCollected == reader.phase \in {"collected", "resolved"}

ChainAsPath ==
    /\ \A i, j \in DOMAIN reader.walk.chain :
           reader.walk.chain[i] = reader.walk.chain[j] => i = j
    /\ ChainCollected =>
           /\ Len(reader.chain) = WalkEnd
           /\ \A i \in 1..WalkEnd : reader.chain[i] = Ancestor(WalkEnd - i)

\* C23: resolve_style comes to an end, with a resolved style or the error
\* for an unknown id, whatever the based_on entries are; the chain it
\* collects holds the styles of the based_on path from the target up to the
\* first id that was visited before or is not defined, root first, each
\* style once.
C23_ChainTerminates ==
    /\ [](ChainAsPath)
    /\ <>(reader.phase \in {"resolved", "KeyError"})

\* The walk has come back to Parent from Root and stopped there.
C23_Witness ==
    /\ reader.phase = "resolved"
    /\ reader.styles["Target"].based_on = "Parent"
    /\ reader.styles["Parent"].based_on = "Root"
    /\ reader.styles["Root"].based_on = "Parent"
    /\ reader.chain = <<"Root", "Parent", "Target">>

\* The places in the chain of the styles that set an attribute.
Setters(attribute) ==
    {i \in DOMAIN reader.chain : reader.styles[reader.chain[i]][attribute] # None}

FontSetters(field) ==
    {i \in DOMAIN reader.chain : reader.styles[reader.chain[i]].fonts[field] # None}

\* The theme font of the token nearest to the target, None without one.
ChainThemeFont ==
    IF FontSetters("ascii_theme") = {} THEN None
    ELSE ResolveThemeFont(reader.theme_map,
             reader.styles[reader.chain[Max(FontSetters("ascii_theme"))]].fonts.ascii_theme)

\* C24: every attribute of the resolved style has the value of the style
\* nearest to the target that sets it and the document default when no
\* style of the chain sets it; a font name not set in the chain is the
\* theme font of the chain's nearest token, and past that the default's
\* name or theme font.  A child that sets only its alignment, on a parent
\* that sets size and alignment, resolves to the child's alignment and the
\* parent's size.
C24_NearestWins ==
    reader.phase = "resolved" =>
        /\ \A attribute \in {"font_size_pt", "alignment"} :
               reader.resolved[attribute] =
                   IF Setters(attribute) = {} THEN reader.defaults[attribute]
                   ELSE reader.styles[reader.chain[Max(Setters(attribute))]][attribute]
        /\ reader.resolved.fonts.ascii =
               IF FontSetters("ascii") # {}
               THEN reader.styles[reader.chain[Max(FontSetters("ascii"))]].fonts.ascii
               ELSE IF reader.theme_map # {} /\ ChainThemeFont # None
               THEN ChainThemeFont
               ELSE IF reader.defaults.fonts.ascii # None
               THEN reader.defaults.fonts.ascii
               ELSE IF reader.theme_map # {}
               THEN ResolveThemeFont(reader.theme_map,
                                     reader.defaults.fonts.ascii_theme)
               ELSE None
        /\ (/\ reader.styles["Target"].based_on = "Parent"
            /\ reader.styles["Target"].font_size_pt = None
            /\ reader.styles["Target"].alignment # None
            /\ reader.styles["Parent"].font_size_pt # None
            /\ reader.styles["Parent"].alignment # None)
               => /\ reader.resolved.alignment = reader.styles["Target"].alignment
                  /\ reader.resolved.font_size_pt
                         = reader.styles["Parent"].font_size_pt

\* The example, over document defaults that set both attributes and a root
\* that sets them too.
C24_Witness ==
    /\ reader.phase = "resolved"
    /\ reader.chain = <<"Root", "Parent", "Target">>
    /\ reader.styles["Target"].font_size_pt = None
    /\ reader.styles["Target"].alignment = "Target"
    /\ reader.styles["Parent"].font_size_pt = "Parent"
    /\ reader.styles["Parent"].alignment = "Parent"
    /\ reader.styles["Root"].font_size_pt = "Root"
    /\ reader.defaults.font_size_pt = DocDefault
    /\ reader.resolved.alignment = "Target"
    /\ reader.resolved.font_size_pt = "Parent"

-----------------------------------------------------------------------------
(* C25: the section rules.                                                 *)

\* What the spec asks of a rule: a key and a display name that are not
\* empty, a keyword, and a limit of at least 1 exactly when the policy is
\* fixed_paragraphs.
ValidSectionRule(rule) ==
    /\ rule.key # ""
    /\ rule.display_name # ""
    /\ rule.title_keywords # <<>> \/ rule.content_keywords # <<>>
    /\ IF rule.body_range = "fixed_paragraphs"
       THEN rule.body_paragraph_limit # <<>> /\ rule.body_paragraph_limit[1] >= 1
       ELSE rule.body_paragraph_limit = <<>>

\* C25 as stated: every SectionRule that has been constructed, and every
\* rule a parser holds, is valid.
C25_ValidOnConstructionAsStated ==
    /\ \A i \in DOMAIN sections.made : ValidSectionRule(sections.made[i])
    /\ \A i \in DOMAIN sections.parser_rules :
           ValidSectionRule(sections.parser_rules[i])

\* C25, what holds: a rule that has passed validate is valid, and validate
\* raises for every rule that is not.
C25_ValidWhenValidated ==
    /\ sections.phase = "validated" => ValidSectionRule(sections.made[1])
    /\ sections.phase = "ValueError" =>
           \/ ~ValidSectionRule(sections.made[1])
           \/ sections.made[1].key = " "
           \/ sections.made[1].display_name = " "

C25_Witness ==
    /\ sections.phase = "validated"
    /\ sections.made[1].body_range = "fixed_paragraphs"
    /\ sections.made[1].body_paragraph_limit = <<1>>
    /\ sections.made[1].title_keywords = <<>>

-----------------------------------------------------------------------------
(* C26: the table-border classifier.                                       *)

FlagsSet == {key \in OuterKeys \cup InnerKeys : BorderFlag(tables.borders, key)}

\* C26 as stated: all six flags give grid, the four outer flags alone
\* outer_only, no flag none, and every other combination mixed.
C26_BorderPatternsAsStated ==
    tables.phase = "classified" =>
        tables.pattern =
            IF FlagsSet = OuterKeys \cup InnerKeys THEN "grid"
            ELSE IF FlagsSet = OuterKeys THEN "outer_only"
            ELSE IF FlagsSet = {} THEN "none"
            ELSE "mixed"

\* C26: all six flags give grid, the four outer flags alone outer_only, the
\* two inner flags alone inner_only, no flag none, and every other
\* combination mixed.
C26_BorderPatterns ==
    tables.phase = "classified" =>
        tables.pattern =
            IF FlagsSet = OuterKeys \cup InnerKeys THEN "grid"
            ELSE IF FlagsSet = OuterKeys THEN "outer_only"
            ELSE IF FlagsSet = InnerKeys THEN "inner_only"
            ELSE IF FlagsSet = {} THEN "none"
            ELSE "mixed"

\* A table with the two inner borders and no outer one.
C26_Witness ==
    /\ tables.phase = "classified"
    /\ FlagsSet = InnerKeys
    /\ tables.pattern = "inner_only"

-----------------------------------------------------------------------------
(* C27, C30: sections, modes and the heading stack.                        *)

\* C27 as stated: at no point of the walk is a section open while one of
\* the abstract, abstract-en, reference and TOC modes is active.
C27_SectionOrModeAsStated == active_section = NoSection \/ ActiveModes = {}

\* The modes active in a state of the walk.
ActiveModesOf(s) ==
    {m \in {"abstract", "abstract_en", "reference", "toc"} :
        \/ m = "abstract" /\ s.abstract_mode
        \/ m = "abstract_en" /\ s.abstract_en_mode
        \/ m = "reference" /\ s.reference_mode
        \/ m = "toc" /\ s.toc_mode}

\* The paragraph just classified has an entry under a body_L role.
RecordedAsLevelBody == \E e \in RecordsHere : e.role.name = "body_L"

\* C30 as stated: while a mode is active the heading stack is empty, and no
\* paragraph classified while a mode is active is recorded as body_L{k}.
C30_ModeEmptiesStackAsStated ==
    /\ ActiveModes # {} => title_stack = <<>>
    /\ (Classified /\ ActiveModesOf(before) # {}) => ~RecordedAsLevelBody

\* C30: while a mode is active the heading stack is empty, and a paragraph
\* classified while a mode is active is recorded as body_L{k} only by an
\* explicit mapping of its style to that role, never from the stack.
C30_ModeEmptiesStack ==
    /\ ActiveModes # {} => title_stack = <<>>
    /\ (Classified /\ ActiveModesOf(before) # {}) =>
           \A e \in RecordsHere :
               e.role.name = "body_L" =>
                   /\ e.source = "explicit"
                   /\ e.role = paragraph.explicit_role

\* An abstract title with its text on the same line has been met under a
\* heading: the mode is entered and the stack is emptied.
C30_Witness ==
    /\ Classified
    /\ before.title_stack # <<>>
    /\ paragraph.inline_abstract = Role("abstract_title")
    /\ abstract_mode
    /\ title_stack = <<>>
    /\ RecordedAs(Role("abstract_body"))

-----------------------------------------------------------------------------
(* C28: the required roles after fallback.                                 *)

\* The role has a rule with every required field set.
Complete(role) ==
    /\ InRules(role, fallback.rules)
    /\ MissingRequiredFields(fallback.rules.rule[role]) = <<>>

\* C28 as stated: with fallback enabled and strict off, every required
\* role, configured or required on presence, has every required field set
\* in the result, whatever the role.
C28_RequiredCompleteAsStated ==
    FallbackMode => \A role \in RequiredRoleSet : Complete(role)

\* C28, what holds: the required roles of the title_L and body_L families
\* and the required-on-presence targets are complete; any other required
\* role has a rule, in which the required fields its style left unset are
\* still unset.
C28_FamilyRolesComplete ==
    FallbackMode =>
        \A role \in RequiredRoleSet :
            /\ InRules(role, fallback.rules)
            /\ (role.name \in {"title_L", "body_L"} \/ role \in PresentTargets)
                   => Complete(role)
            /\ (role.name \notin {"title_L", "body_L"} /\ role \notin PresentTargets)
                   => \A f \in SeqToSet(REQUIRED_FIELDS) :
                          fallback.rules.rule[role][f] = ResolvedField(role, f)

-----------------------------------------------------------------------------
(* C29: style ids the catalog does not define.                             *)

\* The recorded entries whose style id the catalog does not define.
UndefinedEntries(entries) ==
    {k \in 1..Len(entries) :
        entries[k].style_id # "" /\ entries[k].style_id \notin builder.styles}

\* C29: a paragraph whose style id is not defined in the style catalog
\* never makes parse fail with an unknown-style error, whichever role the
\* classifier recorded it under: the candidate builder never ends in the
\* KeyError of resolve_style.
C29_UndefinedStyleNeverFailsAsStated ==
    builder.phase # "KeyError"

\* What holds instead: under a level body or a special role the candidate
\* of an undefined style id is skipped or built from the document defaults,
\* and the builder ends in KeyError exactly at a global body candidate whose
\* style id is undefined.
C29_OnlyGlobalCandidateFails ==
    /\ builder.phase = "KeyError" =>
           /\ builder.i \in UndefinedEntries(builder.global_candidates)
           /\ builder.role_candidates = <<>>
    /\ builder.phase = "built" =>
           /\ UndefinedEntries(builder.global_candidates) = {}
           /\ \A k \in 1..Len(builder.role_candidates) :
                  LET c == builder.role_candidates[k]
                  IN c.resolved.built_from = "style" =>
                         c.resolved.style_id \in builder.styles

\* A level body and a special role recorded under an undefined style id
\* have been built from the document defaults.
C29_Witness ==
    /\ builder.phase = "built"
    /\ UndefinedEntries(builder.body_role_candidates) # {}
    /\ \E k \in 1..Len(builder.role_candidates) :
           builder.role_candidates[k].resolved.built_from = "defaults"

-----------------------------------------------------------------------------
(* C21, C22: a parse and the parses around it.                              *)

\* What parse returns for the template on a new instance on which nothing
\* else runs: <<>> when it raises.
ParseAlone(config, template) ==
    LET begun == [i \in {1} |-> ApplyTemplateType(
                                    BeginParseOn(NewParser(config), template, 0))]
        parsed == ParseTemplateOn(begun, 1)
    IN IF parsed[1].log_state[1].error THEN <<>> ELSE <<ParseResult(parsed[1])>>

TemplateNamed(name) == CHOOSE t \in Templates : t.name = name

C22_IndependentInstances ==
    \A i \in DOMAIN parses.instances :
        LET inst == parses.instances[i]
        IN inst.outcome # "none" /\ inst.pc = "idle" =>
               /\ inst.result = ParseAlone(inst.config, inst.template)
               /\ (inst.outcome = "raised") = (inst.result = <<>>)

\* Both instances have returned, for different templates, and the steps of
\* their parses were interleaved: both logs were written in the same
\* second, so the second write replaced the first.
C22_Witness ==
    /\ DOMAIN parses.instances = Instances
    /\ \A i \in Instances : parses.instances[i].outcome = "returned"
    /\ parses.instances[1].template.name = "thesis"
    /\ parses.instances[2].template.name = "plain"
    /\ parses.instances[1].result # parses.instances[2].result
    /\ parses.now = 0
    /\ parses.logs[0] = << [template |-> "thesis", start_time |-> 0, error |-> FALSE,
                            detected |-> parses.instances[1].detected_heading_levels] >>

=============================================================================
